---- MODULE Spec2Model ----
(***************************************************************************)
(* Model of the reconciliation engine of src/console.js: the compose       *)
(* writer (writeCompose), the allocator (allocateIps, the host-port        *)
(* probe), the two passes of scanAndFix, the periodic runner and the       *)
(* operations that run a reconcile next to it.                             *)
(***************************************************************************)
EXTENDS Integers, Sequences, FiniteSets, TLC

VARIABLES files, mapperFile, activeTerminalCount, inflight, sessions, applying, ticked, last,
          ws, nginx, http, apps, running, transientStatus, op, polled

\* the state of the attach sockets, of the proxy and of the HTTP operations
\* the project folders, their running services and the lifecycle operations
ops == <<apps, running, transientStatus, op, polled>>

rest == <<ws, nginx, http, ops>>

\* the state of the reconciler and of the operations beside it
core == <<files, mapperFile, activeTerminalCount, inflight, sessions, applying, ticked, last>>

vars == <<files, mapperFile, activeTerminalCount, inflight, sessions, applying, ticked, last, rest>>

(***************************************************************************)
(* Values                                                                  *)
(***************************************************************************)

\* project directories, in the order dir.localeCompare sorts them
DirOrder == <<"apps/a", "apps/b">>

Projects == {DirOrder[i] : i \in 1..Len(DirOrder)}

\* NETWORK.base without its trailing dot
NETWORK_base == "172.28.0"

\* a subnet base other than NETWORK.base
OtherBase == "10.0.0"

DefaultNet == "neuxbane-core-net"

\* parseInt of a text that does not start with a digit
NaN == -1

\* first host port the probe tries
ProbeStart == 10000

\* allocateIps tries the last octets FirstHost .. LastHost
FirstHost == 2

LastHost == 254

\* absent address (undefined)
NoIp == [base |-> "", host |-> 0]

Ip(b, h) == [base |-> b, host |-> h]

\* port entries of a service. form "C": the string "C"; "HC": "H:C";
\* "BHC": "B:H:C"; "num": a YAML integer; "obj": a mapping
\* {published: host, target: cont, ...}; "junk": the string "[object Object]"
PortC(c) == [form |-> "C", bind |-> "", host |-> 0, cont |-> c]

PortHC(h, c) == [form |-> "HC", bind |-> "", host |-> h, cont |-> c]

PortBHC(b, h, c) == [form |-> "BHC", bind |-> b, host |-> h, cont |-> c]

PortNum(c) == [form |-> "num", bind |-> "", host |-> 0, cont |-> c]

PortObj(h, c) == [form |-> "obj", bind |-> "", host |-> h, cont |-> c]

PortJunk == [form |-> "junk", bind |-> "", host |-> 0, cont |-> 0]

\* network attachments of a service. form "bare": null value; "str": a
\* string value (v4 is the address it spells, NoIp for any other text);
\* "obj": a mapping with the keys ipv4_address (v4) and ipv4Address (v4c)
AttBare == [form |-> "bare", v4 |-> NoIp, v4c |-> NoIp]

AttStr(ip) == [form |-> "str", v4 |-> ip, v4c |-> NoIp]

AttObj(ip) == [form |-> "obj", v4 |-> ip, v4c |-> NoIp]

AttCamel(ip) == [form |-> "obj", v4 |-> NoIp, v4c |-> ip]

Net(n, a) == [name |-> n, att |-> a]

\* a service: its key, ports, networks (in key order), the service-level
\* keys ipv4_address / ipv4Address, and the fields the reconcile never reads
Svc(n, ps, ns) == [name |-> n, ports |-> ps, nets |-> ns, sip |-> NoIp, sipc |-> NoIp, extra |-> "x"]

\* top-level networks block: present or not, the names with a mapping value
\* (defs) and the names with a null value (nulls)
NoTop == [present |-> FALSE, defs |-> {}, nulls |-> {}]

Top(d, n) == [present |-> TRUE, defs |-> d, nulls |-> n]

\* a manifest file: ok (readable and valid YAML), canon (its text is what
\* YAML.stringify gives for its tree), and the tree
Manifest(c, ss, t) == [ok |-> TRUE, canon |-> c, services |-> ss, top |-> t]

Broken == [ok |-> FALSE, canon |-> FALSE, services |-> <<>>, top |-> NoTop]

(***************************************************************************)
(* Counting tables (usedHostCounts, usedIpCounts)                          *)
(***************************************************************************)

Cnt(f, k) == IF k \in DOMAIN f THEN f[k] ELSE 0

Inc(f, k) == IF k \in DOMAIN f THEN [f EXCEPT ![k] = @ + 1] ELSE f @@ (k :> 1)

\* usedHostCounts[k] = (usedHostCounts[k] || 1) - 1
Dec(f, k) == IF k \in DOMAIN f /\ f[k] # 0 THEN [f EXCEPT ![k] = @ - 1] ELSE f @@ (k :> 0)

EmptyCount == [k \in {} |-> 0]

SetMin(S) == CHOOSE x \in S : \A y \in S : x <= y

(***************************************************************************)
(* First pass of scanAndFix: the census                                    *)
(***************************************************************************)

\* the host port the census reads from one ports entry
CensusHost(p) ==
  CASE p.form = "BHC" -> p.host
    [] p.form = "HC" -> p.host
    [] p.form = "C" -> p.cont
    [] p.form = "num" -> p.cont
    [] OTHER -> NaN

RECURSIVE CensusPorts(_, _, _)
CensusPorts(ports, i, c) ==
  IF i > Len(ports) THEN c
  ELSE LET host == CensusHost(ports[i])
       IN CensusPorts(ports, i + 1,
            IF host # NaN
            THEN [c EXCEPT !.hc = Inc(@, host), !.hs = @ \cup {host}]
            ELSE c)

\* the service-level keys, counted once per network and once per service
CensusSvcIp(svc, c) ==
  LET c1 == IF svc.sip # NoIp THEN [c EXCEPT !.ic = Inc(@, svc.sip)] ELSE c
  IN IF c.threw THEN c
     ELSE IF svc.sipc # NoIp THEN [c1 EXCEPT !.ic = Inc(@, svc.sipc)] ELSE c1

\* isIpv4 is not defined in the scope of scanAndFix: calling it throws
isIpv4Throws == TRUE

RECURSIVE CensusNets(_, _, _)
CensusNets(svc, i, c) ==
  IF i > Len(svc.nets) \/ c.threw THEN c
  ELSE LET net == svc.nets[i].att
       IN IF net.form = "str"
          THEN IF isIpv4Throws
               THEN [c EXCEPT !.threw = TRUE]
               ELSE CensusNets(svc, i + 1,
                      CensusSvcIp(svc, IF net.v4 # NoIp THEN [c EXCEPT !.ic = Inc(@, net.v4)] ELSE c))
          ELSE LET c1 == IF net.v4 # NoIp THEN [c EXCEPT !.ic = Inc(@, net.v4)] ELSE c
                   c2 == IF net.v4c # NoIp THEN [c1 EXCEPT !.ic = Inc(@, net.v4c)] ELSE c1
               IN CensusNets(svc, i + 1, CensusSvcIp(svc, c2))

\* one service in the census try-block: its ports, its networks, its
\* service-level keys
CensusService(svc, c) ==
  IF c.threw THEN c
  ELSE CensusSvcIp(svc, CensusNets(svc, 1, CensusPorts(svc.ports, 1, c)))

\* for (const [name, svc] of Object.entries(obj.services)): services lo..hi
\* in order, the first half before the second; nothing after a throw
RECURSIVE CensusServices(_, _, _, _)
CensusServices(services, lo, hi, c) ==
  IF lo > hi \/ c.threw THEN c
  ELSE IF lo = hi THEN CensusService(services[lo], c)
  ELSE LET mid == (lo + hi) \div 2
       IN CensusServices(services, mid + 1, hi, CensusServices(services, lo, mid, c))

\* networks referenced by the services of one manifest
UsedNets(services) ==
  UNION {{services[i].nets[j].name : j \in 1..Len(services[i].nets)} : i \in 1..Len(services)}

\* the end of the try-block for one directory: composeData.push, or the
\* catch that logs 'failed parse'; what the directory added to the tables
\* before it threw stays in them
CensusDir(dir, c) ==
  IF c.threw THEN [c EXCEPT !.threw = FALSE]
  ELSE [c EXCEPT !.composeData = @ \cup {dir}]

\* the census over the discovered directories
RECURSIVE Census(_, _, _)
Census(fs, dirs, c) ==
  IF dirs = <<>> THEN c
  ELSE IF ~fs[Head(dirs)].ok
  THEN Census(fs, Tail(dirs), c)
  ELSE Census(fs, Tail(dirs),
         CensusDir(Head(dirs),
           CensusServices(fs[Head(dirs)].services, 1, Len(fs[Head(dirs)].services),
                          [c EXCEPT !.threw = FALSE])))

Census0 == [hc |-> EmptyCount, hs |-> {}, ic |-> EmptyCount, threw |-> FALSE, composeData |-> {}]

(***************************************************************************)
(* Allocator                                                               *)
(***************************************************************************)

\* let probe = 10000; while (usedHostSet.has(probe)) probe++
nextProbe(usedHostSet) ==
  SetMin({n \in ProbeStart..(ProbeStart + Cardinality(usedHostSet)) : n \notin usedHostSet})

\* allocateIps(existingIps, 1)[0]: NoIp when no last octet is free
allocateIps(existingIps) ==
  LET used == {ip.host : ip \in existingIps}
      free == {i \in FirstHost..LastHost : i \notin used}
  IN IF free = {} THEN NoIp ELSE Ip(NETWORK_base, SetMin(free))

(***************************************************************************)
(* Second pass of scanAndFix: fix one service                              *)
(***************************************************************************)

\* the duplicate test of the second pass
IsDuplicated(counts, k) == Cnt(counts, k) > 1

\* one ports entry; t carries usedHostCounts (hc) and usedHostSet (hs)
FixPort(p, t) ==
  IF p.form \in {"HC", "BHC"}
  THEN IF p.host # NaN /\ IsDuplicated(t.hc, p.host)
       THEN LET newHost == nextProbe(t.hs)
            IN [port |-> [p EXCEPT !.host = newHost],
                t |-> [t EXCEPT !.hs = @ \cup {newHost}, !.hc = Dec(@, p.host)]]
       ELSE [port |-> p, t |-> t]
  ELSE IF p.form = "num" THEN [port |-> PortC(p.cont), t |-> t]
  ELSE IF p.form = "obj" THEN [port |-> PortJunk, t |-> t]
  ELSE [port |-> p, t |-> t]

\* newPorts.push(...): r carries newPorts (ports) and the tables (t)
KeepPort(r, f) == [ports |-> Append(r.ports, f.port), t |-> f.t]

RECURSIVE FixPorts(_, _, _)
FixPorts(ports, i, r) ==
  IF i > Len(ports) THEN r
  ELSE FixPorts(ports, i + 1, KeepPort(r, FixPort(ports[i], r.t)))

\* one network attachment; r carries svc.networks (nets), the networks of
\* the mapper copy of the service (mnets) and the tables (t, with
\* usedIpCounts in ic)
FixNet(r, i) ==
  LET net == r.nets[i].att
      newIp == allocateIps(DOMAIN r.t.ic)
  IN IF net.form = "obj" /\ net.v4 # NoIp
     THEN IF IsDuplicated(r.t.ic, net.v4)
          THEN IF newIp # NoIp
               THEN [nets |-> [r.nets EXCEPT ![i].att.v4 = newIp],
                     mnets |-> [r.mnets EXCEPT ![i].att = AttStr(newIp)],
                     t |-> [r.t EXCEPT !.ic = Inc(@, newIp)]]
               ELSE r
          ELSE [r EXCEPT !.mnets[i].att = AttStr(net.v4)]
     ELSE IF net.form = "obj" /\ net.v4c # NoIp
     THEN IF IsDuplicated(r.t.ic, net.v4c) /\ newIp # NoIp
          THEN \* the mapper entry is copied again from the service
               [nets |-> [r.nets EXCEPT ![i].att.v4c = newIp],
                mnets |-> [r.nets EXCEPT ![i].att.v4c = newIp],
                t |-> [r.t EXCEPT !.ic = Inc(@, newIp)]]
          ELSE [r EXCEPT !.mnets = r.nets]
     ELSE r

RECURSIVE FixNets(_, _)
FixNets(r, i) ==
  IF i > Len(r.nets) THEN r ELSE FixNets(FixNet(r, i), i + 1)

FixedService_StalePorts(svc, rp, rn) ==
  [svc |-> [svc EXCEPT !.ports = rp.ports, !.nets = rn.nets],
   msvc |-> [svc EXCEPT !.nets = rn.mnets],
   t |-> rn.t]

\* the fixed service and its mapper entry, from the fixed ports (rp) and the
\* fixed networks (rn)
FixedService(svc, rp, rn) ==
  [svc |-> [svc EXCEPT !.ports = rp.ports, !.nets = rn.nets],
   msvc |-> [svc EXCEPT !.ports = rp.ports, !.nets = rn.mnets],
   t |-> rn.t]

\* the networks of a service, after its ports
FixServiceNets(svc, rp) ==
  FixedService(svc, rp, FixNets([nets |-> svc.nets, mnets |-> svc.nets, t |-> rp.t], 1))

\* one service: the fixed service, its mapper entry and the tables
FixService(svc, t) ==
  FixServiceNets(svc, FixPorts(svc.ports, 1, [ports |-> <<>>, t |-> t]))

\* obj.services[name] and serviceMapper[name] of one fixed service
KeepService(r, f) ==
  [services |-> Append(r.services, f.svc),
   serviceMapper |-> Append(r.serviceMapper, f.msvc),
   t |-> f.t]

\* for (const [name, svc] of Object.entries(obj.services)): services lo..hi
\* in order, the first half before the second; r carries the fixed services,
\* the mapper entries and the tables, and has passed Len(r.services) services
RECURSIVE FixServices(_, _, _, _)
FixServices(services, lo, hi, r) ==
  IF Len(r.services) >= hi THEN r
  ELSE IF lo = hi THEN KeepService(r, FixService(services[lo], r.t))
  ELSE FixServices(services, (lo + hi) \div 2 + 1, hi,
                   FixServices(services, lo, (lo + hi) \div 2, r))

(***************************************************************************)
(* Top-level networks block                                                *)
(***************************************************************************)

\* if (!obj.networks) obj.networks = { 'neuxbane-core-net': { external: true } }
DefaultTop(top) == IF top.present THEN top ELSE Top({DefaultNet}, {})

\* every referenced network without a truthy entry gets { external, name }
AddReferenced(top, used) == [top EXCEPT !.defs = @ \cup used, !.nulls = @ \ used]

\* PruneUnused that deletes nothing
PruneUnused_KeepsAll(top, used) == top

\* delete what no service references, except the default network
PruneUnused(top, used) ==
  [top EXCEPT !.defs = {n \in @ : n \in used \/ n = DefaultNet},
              !.nulls = {n \in @ : n \in used \/ n = DefaultNet}]

\* if the block is empty now, remove it
DropEmpty(top) == IF top.defs \cup top.nulls = {} THEN NoTop ELSE top

FixTop(top, used) == DropEmpty(PruneUnused(AddReferenced(DefaultTop(top), used), used))

(***************************************************************************)
(* writeCompose                                                            *)
(***************************************************************************)

\* the parsed tree of a manifest, without the properties of its text
Tree(m) == [services |-> m.services, top |-> m.top]

\* cur === yamlText: the text on disk is the serialization of obj
SameText(m, obj) == m.ok /\ m.canon /\ Tree(m) = obj

\* a ports mapping becomes a string; what has no container part is skipped
SanitizePort(p) ==
  IF p.form = "obj"
  THEN LET container == IF p.cont # 0 THEN p.cont ELSE p.host
       IN IF p.bind # "" /\ p.host # 0 THEN <<PortBHC(p.bind, p.host, container)>>
          ELSE IF p.host # 0 THEN <<PortHC(p.host, container)>>
          ELSE IF container # 0 THEN <<PortC(container)>>
          ELSE <<>>
  ELSE IF p.form = "num" THEN <<>>
  ELSE <<p>>

RECURSIVE SanitizePorts(_)
SanitizePorts(ports) ==
  IF ports = <<>> THEN <<>> ELSE SanitizePort(Head(ports)) \o SanitizePorts(Tail(ports))

\* a string that spells an address becomes { ipv4_address }
SanitizeNet(n) ==
  IF n.att.form = "str" /\ n.att.v4 # NoIp THEN [n EXCEPT !.att = AttObj(n.att.v4)] ELSE n

SanitizeService(svc) ==
  [svc EXCEPT !.ports = SanitizePorts(@),
              !.nets = [j \in 1..Len(@) |-> SanitizeNet(@[j])]]

Sanitize(obj) ==
  [obj EXCEPT !.services = [i \in 1..Len(@) |-> SanitizeService(@[i])]]

\* the file after writeCompose(file, obj), given the file before
writeCompose(m, obj) ==
  IF SameText(m, obj) THEN m
  ELSE LET final == Sanitize(obj)
       IN [ok |-> TRUE, canon |-> TRUE, services |-> final.services, top |-> final.top]

(***************************************************************************)
(* scanAndFix after project discovery                                      *)
(***************************************************************************)

\* the project directories the model knows, as localeCompare orders them
Lexicographic == <<"apps/a", "apps/b", "apps/template", "apps/u">>

SortedDirs(S) == SelectSeq(Lexicographic, LAMBDA d : d \in S)

WriteProject_Ignore(dir, r, writeFails, fixed, obj) ==
  [r EXCEPT !.t = fixed.t,
            !.files[dir] = writeCompose(r.files[dir], obj),
            !.wrote = IF SameText(r.files[dir], obj) THEN @ ELSE @ \cup {dir},
            !.mapper = @ @@ (dir :> fixed.serviceMapper)]

\* writeCompose(file, obj) and mapper[dir] = ... in their try-block
WriteProject(dir, r, writeFails, fixed, obj) ==
  IF dir \in writeFails
  THEN [r EXCEPT !.t = fixed.t]
  ELSE [r EXCEPT !.t = fixed.t,
                 !.files[dir] = writeCompose(r.files[dir], obj),
                 !.wrote = IF SameText(r.files[dir], obj) THEN @ ELSE @ \cup {dir},
                 !.mapper = @ @@ (dir :> fixed.serviceMapper)]

\* the top-level networks block of one directory, after its services
FixProjectTop(dir, r, writeFails, fixed) ==
  WriteProject(dir, r, writeFails, fixed,
               [services |-> fixed.services,
                top |-> FixTop(r.files[dir].top, UsedNets(r.files[dir].services))])

\* the second pass over one directory; r carries the tables (t), the files,
\* the mapper under construction and the set of files written
FixProject(dir, r, writeFails) ==
  FixProjectTop(dir, r, writeFails,
                FixServices(r.files[dir].services, 1, Len(r.files[dir].services),
                            [services |-> <<>>, serviceMapper |-> <<>>, t |-> r.t]))

RECURSIVE SecondPass(_, _, _)
SecondPass(dirs, r, writeFails) ==
  IF dirs = <<>> THEN r
  ELSE SecondPass(Tail(dirs), FixProject(Head(dirs), r, writeFails), writeFails)

EmptyMapper == [d \in {} |-> <<>>]

\* the mapper file is written if its content changes; what the run did
WriteMapper(mf, projectDirs, writeFails, c, r) ==
  [files |-> r.files,
   mapperFile |-> [exists |-> TRUE, content |-> r.mapper],
   wrote |-> r.wrote,
   mapperWrote |-> mf # [exists |-> TRUE, content |-> r.mapper],
   failed |-> projectDirs \ c.composeData,
   writeFailed |-> writeFails \cap c.composeData]

\* the second pass over composeData, sorted, and the mapper
AfterCensus(fs, mf, projectDirs, writeFails, c) ==
  WriteMapper(mf, projectDirs, writeFails, c,
              SecondPass(SortedDirs(c.composeData),
                         [t |-> [hc |-> c.hc, hs |-> c.hs, ic |-> c.ic],
                          files |-> fs, mapper |-> EmptyMapper, wrote |-> {}],
                         writeFails))

\* the run from the census to the mapper: the files and the mapper file
\* after it, and what it did
scanAndFix(fs, mf, projectDirs, writeFails) ==
  AfterCensus(fs, mf, projectDirs, writeFails, Census(fs, SortedDirs(projectDirs), Census0))

(***************************************************************************)
(* Workspaces the model starts from                                        *)
(***************************************************************************)

CoreIp(h) == Ip(NETWORK_base, h)

PortLists ==
  { <<>>,
    <<PortHC(8080, 80)>>,
    <<PortBHC("127.0.0.1", 8080, 80)>>,
    <<PortC(8080)>>,
    <<PortHC(10000, 80)>>,
    <<PortC(10000)>>,
    <<PortHC(8080, 80), PortHC(8080, 443)>>,
    <<PortNum(8080)>>,
    <<PortObj(8080, 80)>> }

NetLists ==
  { <<Net(DefaultNet, AttObj(CoreIp(5)))>>,
    <<Net(DefaultNet, AttObj(CoreIp(2)))>>,
    <<Net("other-net", AttObj(Ip(OtherBase, 5)))>>,
    <<Net(DefaultNet, AttBare)>>,
    <<Net(DefaultNet, AttStr(CoreIp(5)))>>,
    <<Net(DefaultNet, AttCamel(CoreIp(5)))>>,
    <<Net(DefaultNet, AttObj(CoreIp(5))), Net("other-net", AttObj(Ip(OtherBase, 3)))>> }

Tops == { NoTop, Top({DefaultNet}, {}), Top({"old-net"}, {}), Top({}, {"other-net"}) }

\* one service for every last octet allocateIps can give out, each attached
\* to a network of another subnet
FullServices ==
  [i \in 1..(LastHost - FirstHost + 1) |->
     Svc("s" \o ToString(i), <<>>, <<Net("other-net", AttObj(Ip(OtherBase, FirstHost + i - 1)))>>)]

\* manifests that vary the ports, the networks, and the top-level block
Catalogue(canon) ==
  {Manifest(canon, <<Svc("web", ps, <<>>)>>, Top({DefaultNet}, {})) : ps \in PortLists}
  \cup {Manifest(canon, <<Svc("web", <<PortHC(8080, 80)>>, ns)>>, Top({DefaultNet}, {})) : ns \in NetLists}
  \cup {Manifest(canon, <<Svc("web", <<>>, <<Net(DefaultNet, AttObj(CoreIp(5)))>>)>>, t) : t \in Tops}
  \cup {Manifest(canon, <<Svc("web", <<>>, <<>>)>>, t) : t \in Tops}
  \cup { Manifest(canon, <<Svc("db", <<>>, <<Net(DefaultNet, AttStr(CoreIp(5)))>>),
                           Svc("web", <<PortHC(8080, 80)>>, <<>>)>>, NoTop),
         Manifest(canon, <<Svc("db", <<PortHC(8080, 80)>>, <<Net(DefaultNet, AttObj(CoreIp(5)))>>),
                           Svc("web", <<PortHC(8080, 80)>>, <<Net(DefaultNet, AttObj(CoreIp(5)))>>)>>, NoTop),
         Broken }

\* a workspace in which the first project occupies every last octet and the
\* second holds one address twice
FullWorkspace ==
  (DirOrder[1] :> Manifest(TRUE, FullServices, Top({"other-net"}, {})))
  @@ (DirOrder[2] :> Manifest(TRUE, <<Svc("db", <<>>, <<Net(DefaultNet, AttObj(CoreIp(5)))>>),
                                      Svc("web", <<>>, <<Net(DefaultNet, AttObj(CoreIp(5)))>>)>>,
                              Top({DefaultNet}, {})))

(***************************************************************************)
(* State                                                                   *)
(***************************************************************************)

MaxInFlight == 2

SessionIds == {"s1", "s2"}

NoMapper == [exists |-> FALSE, content |-> EmptyMapper]

InFlight == inflight.tick + inflight.user

SessionActive == \E s \in SessionIds : sessions[s] = "open"

\* history of the reconciler: what the latest run of scanAndFix did. pre is
\* the workspace it started from (order: the order in which discovery gave the
\* directories, where the run was given one); cleanRuns counts, up to 2, the runs in a
\* row in which no manifest failed and no write failed
Did(res, pre) ==
  [op |-> "scan", wrote |-> res.wrote, mapperWrote |-> res.mapperWrote,
   failed |-> res.failed, writeFailed |-> res.writeFailed, pre |-> pre, order |-> <<>>,
   cleanRuns |-> IF res.failed = {} /\ res.writeFailed = {}
                 THEN (IF last.cleanRuns = 0 THEN 1 ELSE 2)
                 ELSE 0]

last0 ==
  [op |-> "init", wrote |-> {}, mapperWrote |-> FALSE,
   failed |-> {}, writeFailed |-> {}, pre |-> <<>>, order |-> <<>>, cleanRuns |-> 0]

\* an attach socket nobody has opened yet
wsIdle ==
  [action |-> "none", phase |-> "idle", sock |-> "none", listening |-> FALSE,
   sessionClosed |-> FALSE, term |-> FALSE, firstRun |-> TRUE, decs |-> 0,
   projectDir |-> "", cmd |-> "none",
   killed |-> FALSE, respawn |-> FALSE, late |-> FALSE, handlers |-> 0,
   monitor |-> FALSE, countdown |-> 0, silent |-> FALSE, heard |-> FALSE, closedBy |-> "none",
   msg |-> [kind |-> "none", writes |-> 0, resizes |-> 0]]

\* no HTTP operation on a project is under way. kind, path, running, pre (the
\* folders before it), wrote (its write or CLI call happened), scanned (a
\* scanAndFix it awaited has finished since) and status describe the latest one;
\* restart tells of a restart whether restart.sh was used, how often a restart
\* was invoked, whether the first one failed on a name conflict, what became
\* of docker rm -f, and whether the handler ended in a catch block; add holds
\* for an add the manifests before it, the new folder, and the handler's obj,
\* usedHost and usedIPs
opIdle ==
  [kind |-> "none", path |-> <<>>, pc |-> "idle", status |-> 0, wrote |-> FALSE,
   scanned |-> FALSE, pre |-> {}, running |-> FALSE, newName |-> "", confirmName |-> "",
   restart |-> [script |-> FALSE, calls |-> 0, conflict |-> FALSE, rm |-> "none", err |-> FALSE],
   add |-> [before |-> <<>>, dir |-> "", obj |-> <<>>, usedHost |-> {}, usedIPs |-> {}]]

\* no second /api/nginx/save runs beside the first: its position, its backup
\* file, whether it made one, and its answer
overlapIdle == [pc |-> "idle", tmp |-> "absent", backedUp |-> FALSE, res |-> "none"]

\* core/default.conf is there or not (it is not before the first save); no
\* save is under way
nginxIdle(live) ==
  [live |-> live, tmp |-> "absent", pc |-> "idle", backedUp |-> FALSE,
   pre |-> live, ran |-> <<>>, res |-> "none", other |-> overlapIdle]

\* the addresses clients connect from
ClientIps == {"ip1", "ip2"}

\* the clock of the login window and the clock of the sessions advance in
\* steps: so many steps make 15 minutes, so many make 24 hours
WindowSteps == 2
SessionSteps == 2

MAX_AUTH_ATTEMPTS == 5
AUTH_WINDOW_MS == WindowSteps
SESSION_TIMEOUT == SessionSteps

\* sessions holds at most the entry of token "t1": age is now - created,
\* issued is the time since /api/login stored it
NoSession == [exists |-> FALSE, age |-> 0, issued |-> 0]

\* the last request and its answer. recent, had and old are read before the
\* handler runs: the failed attempts of the address inside the window, whether
\* the token's session existed, whether it was issued more than 24 hours ago
NoRequest == [path |-> "", token |-> "none", sameIp |-> TRUE, valid |-> FALSE, status |-> 0, ran |-> FALSE,
              checked |-> FALSE, had |-> FALSE, old |-> FALSE,
              ip |-> "ip1", password |-> "none", recent |-> 0, issued |-> FALSE]

InitRest ==
  /\ ws = [s \in SessionIds |-> wsIdle]
  /\ nginx = nginxIdle("absent")
  /\ http = [session |-> NoSession, authAttempts |-> [ip \in ClientIps |-> <<>>], req |-> NoRequest]
  /\ apps = {"a", "b", "template"}
  /\ running = {}
  /\ transientStatus = [d \in Projects |-> "none"]
  /\ op = opIdle
  /\ polled = [status |-> [d \in Projects |-> "unknown"], failed |-> {}, odd |-> FALSE]

\* the server has started: runner() has been called once and its scanAndFix
\* waits for project discovery; no mapper file has been written yet
InitServer ==
  /\ mapperFile = NoMapper
  /\ activeTerminalCount = 0
  /\ inflight = [tick |-> 1, user |-> 0]
  /\ sessions = [s \in SessionIds |-> "closed"]
  /\ applying = {}
  /\ ticked = "no"
  /\ last = last0
  /\ InitRest

(***************************************************************************)
(* Reconcile steps                                                         *)
(***************************************************************************)

\* a runner that never skips
runnerSkips_Never == FALSE

\* if (activeTerminalCount > 0) return
runnerSkips == activeTerminalCount > 0

\* runner(): the periodic tick. ticked is history: what the latest call did

runner ==
  /\ ticked' = IF runnerSkips THEN "skipped" ELSE "scan"
  /\ IF runnerSkips
     THEN UNCHANGED <<files, mapperFile, activeTerminalCount, inflight, sessions, applying>>
     ELSE /\ InFlight < MaxInFlight
          /\ inflight' = [inflight EXCEPT !.tick = @ + 1]
          /\ UNCHANGED <<files, mapperFile, activeTerminalCount, sessions, applying>>

\* project discovery of one running scanAndFix returns and the rest of the
\* run (census, fixes, writes, mapper) executes without interruption
ScanEnds(origin, res) ==
  /\ inflight[origin] > 0
  /\ files' = res.files
  /\ mapperFile' = res.mapperFile
  /\ inflight' = [inflight EXCEPT ![origin] = @ - 1]
  /\ UNCHANGED <<activeTerminalCount, sessions, applying, ticked>>

ScanFinish(origin, writeFails) ==
  ScanEnds(origin, scanAndFix(files, mapperFile, Projects, writeFails))

(***************************************************************************)
(* Terminal sessions                                                       *)
(***************************************************************************)

\* wss.on('connection'): the counter goes up before anything else
wssConnection(s) ==
  /\ sessions[s] = "closed"
  /\ sessions' = [sessions EXCEPT ![s] = "open"]
  /\ activeTerminalCount' = activeTerminalCount + 1
  /\ UNCHANGED <<files, mapperFile, inflight, applying, ticked>>

\* onCloseCleanup: on PTY exit or socket close, once per session
onCloseCleanup(s) ==
  /\ sessions[s] = "open"
  /\ sessions' = [sessions EXCEPT ![s] = "closed"]
  /\ activeTerminalCount' = IF activeTerminalCount - 1 > 0 THEN activeTerminalCount - 1 ELSE 0
  /\ UNCHANGED <<files, mapperFile, inflight, applying, ticked>>

(***************************************************************************)
(* User operations that run a reconcile                                    *)
(***************************************************************************)

\* GET /api/mapper with no readable mapper file starts a scanAndFix; with a
\* mapper file it only reads
apiMapper ==
  /\ ~mapperFile.exists
  /\ InFlight < MaxInFlight
  /\ inflight' = [inflight EXCEPT !.user = @ + 1]
  /\ UNCHANGED <<files, mapperFile, activeTerminalCount, sessions, applying, ticked>>

\* a service of an /api/apply request: ports holds strings (forms C, HC,
\* BHC) and structured entries (form "obj": container, host, bind)
Change(n, hasPorts, ps, hasNets, ns) ==
  [name |-> n, hasPorts |-> hasPorts, ports |-> ps, hasNets |-> hasNets, nets |-> ns]

Requests ==
  { <<Change("web", TRUE, <<PortHC(8080, 80), PortObj(0, 80)>>, TRUE, <<Net(DefaultNet, AttStr(CoreIp(5)))>>)>> }

\* host ports /api/apply finds in the manifests of the workspace
applyUsedHost(fs) ==
  UNION {UNION {{fs[d].services[i].ports[j].host :
                   j \in {k \in 1..Len(fs[d].services[i].ports) :
                            /\ fs[d].services[i].ports[k].form \in {"HC", "BHC"}
                            /\ fs[d].services[i].ports[k].host # 0}} :
                i \in 1..Len(fs[d].services)} :
         d \in {e \in Projects : fs[e].ok}}

\* the ports of one requested service; a structured entry without a host
\* gets the next free host port, and the default bind address 0.0.0.0
RECURSIVE applyPorts(_, _, _)
applyPorts(ports, acc, usedHost) ==
  IF ports = <<>> THEN [ports |-> acc, usedHost |-> usedHost]
  ELSE LET p == Head(ports)
       IN IF p.form # "obj" THEN applyPorts(Tail(ports), Append(acc, p), usedHost)
          ELSE IF p.cont = 0 THEN applyPorts(Tail(ports), acc, usedHost)
          ELSE LET hostPort == IF p.host # 0 THEN p.host ELSE nextProbe(usedHost)
                   bind == IF p.bind = "" THEN "0.0.0.0" ELSE p.bind
               IN applyPorts(Tail(ports), Append(acc, PortBHC(bind, hostPort, p.cont)),
                             IF p.host # 0 THEN usedHost ELSE usedHost \cup {hostPort})

\* a string that spells an address becomes { ipv4_address }
applyNet(n) ==
  IF n.att.form = "str" /\ n.att.v4 # NoIp THEN [n EXCEPT !.att = AttObj(n.att.v4)] ELSE n

\* obj.services = {} and then one fresh entry per requested service
RECURSIVE applyServices(_, _, _)
applyServices(req, acc, usedHost) ==
  IF req = <<>> THEN acc
  ELSE LET ch == Head(req)
           rp == IF ch.hasPorts THEN applyPorts(ch.ports, <<>>, usedHost)
                 ELSE [ports |-> <<>>, usedHost |-> usedHost]
           svc == [name |-> ch.name, ports |-> rp.ports,
                   nets |-> IF ch.hasNets THEN [j \in 1..Len(ch.nets) |-> applyNet(ch.nets[j])] ELSE <<>>,
                   sip |-> NoIp, sipc |-> NoIp, extra |-> ""]
       IN applyServices(Tail(req), Append(acc, svc), rp.usedHost)

\* POST /api/apply up to its await of project discovery: the manifest has
\* been read and parsed
apiApplyRead(dir, req) ==
  /\ applying = {}
  /\ files[dir].ok
  /\ applying' = {[dir |-> dir, req |-> req, top |-> files[dir].top]}
  /\ UNCHANGED <<files, mapperFile, activeTerminalCount, inflight, sessions, ticked>>

\* an apply that adds the requested services to the ones of the manifest
applyBase_Keep(services) == services

\* obj.services = {}: the services of the manifest are dropped, the requested
\* ones are then built on an empty map
applyBase(services) == <<>>

\* POST /api/apply after project discovery: build the services, write the
\* manifest, start scanAndFix; a failed write answers 500 without a scan
apiApplyWrite(a, writeFails) ==
  /\ a \in applying
  /\ applying' = applying \ {a}
  /\ IF writeFails
     THEN UNCHANGED <<files, inflight>>
     ELSE LET obj == [services |-> applyServices(a.req, applyBase(files[a.dir].services), applyUsedHost(files)), top |-> a.top]
          IN /\ InFlight < MaxInFlight
             /\ files' = [files EXCEPT ![a.dir] = writeCompose(files[a.dir], obj)]
             /\ inflight' = [inflight EXCEPT !.user = @ + 1]
  /\ UNCHANGED <<mapperFile, activeTerminalCount, sessions, ticked>>

(***************************************************************************)
(* The reconciler alone, over every workspace of the catalogue             *)
(***************************************************************************)

InitScan ==
  /\ \/ \E canon \in BOOLEAN : files \in [Projects -> Catalogue(canon)]
     \/ files = FullWorkspace
  /\ InitServer

\* ScanFinish, with the history of the run recorded
Reconcile(writeFails) ==
  LET res == scanAndFix(files, mapperFile, Projects, writeFails)
  IN /\ ScanEnds("tick", res)
     /\ last' = Did(res, files)
     /\ UNCHANGED rest

NextScan ==
  \/ runner /\ UNCHANGED <<last, rest>>
  \/ \E wf \in SUBSET Projects : Reconcile(wf)

SpecScan == InitScan /\ [][NextScan]_vars

(***************************************************************************)
(* The server: ticks, sessions and user operations side by side            *)
(***************************************************************************)

ServerCatalogue ==
  { Manifest(FALSE, <<Svc("web", <<PortHC(8080, 80)>>, <<Net(DefaultNet, AttObj(CoreIp(5)))>>)>>, NoTop),
    Manifest(TRUE, <<Svc("web", <<PortHC(8080, 80)>>, <<>>)>>, Top({DefaultNet}, {})) }

Init ==
  /\ files \in [Projects -> ServerCatalogue]
  /\ InitServer

Next ==
  \/ runner /\ UNCHANGED <<last, rest>>
  \/ \E o \in {"tick", "user"}, wf \in {{}, Projects} : ScanFinish(o, wf) /\ UNCHANGED <<last, rest>>
  \/ \E s \in SessionIds : wssConnection(s) /\ UNCHANGED <<last, rest>>
  \/ \E s \in SessionIds : onCloseCleanup(s) /\ UNCHANGED <<last, rest>>
  \/ apiMapper /\ UNCHANGED <<last, rest>>
  \/ \E d \in Projects, r \in Requests : apiApplyRead(d, r) /\ UNCHANGED <<last, rest>>
  \/ \E a \in applying, wf \in BOOLEAN : apiApplyWrite(a, wf) /\ UNCHANGED <<last, rest>>

Spec == Init /\ [][Next]_vars

(***************************************************************************)
(* Reading a workspace                                                     *)
(***************************************************************************)

\* positions <<dir, service, entry>> of the ports entries of a workspace
PortPos(fs) ==
  UNION {UNION {{<<d, i, j>> : j \in 1..Len(fs[d].services[i].ports)} : i \in 1..Len(fs[d].services)} :
         d \in {e \in Projects : fs[e].ok}}

PortAt(fs, pos) == fs[pos[1]].services[pos[2]].ports[pos[3]]

\* a mapping has a host port in the forms "H:C" and "B:H:C"
HasHostPort(p) == p.form \in {"HC", "BHC"}

HostPos(fs) == {pos \in PortPos(fs) : HasHostPort(PortAt(fs, pos))}

HostsInUse(fs) == {PortAt(fs, pos).host : pos \in HostPos(fs)}

SameHost(fs, h) == {pos \in HostPos(fs) : PortAt(fs, pos).host = h}

\* positions <<dir, service, entry>> of the network attachments
AttPos(fs) ==
  UNION {UNION {{<<d, i, j>> : j \in 1..Len(fs[d].services[i].nets)} : i \in 1..Len(fs[d].services)} :
         d \in {e \in Projects : fs[e].ok}}

AttAt(fs, pos) == fs[pos[1]].services[pos[2]].nets[pos[3]].att

\* the static address of an attachment, NoIp if it has none
AttIp(a) == IF a.v4 # NoIp THEN a.v4 ELSE a.v4c

IpPos(fs) == {pos \in AttPos(fs) : AttIp(AttAt(fs, pos)) # NoIp}

SameIp(fs, ip) == {pos \in IpPos(fs) : AttIp(AttAt(fs, pos)) = ip}

\* attachments in the structured form { ipv4_address: ip }
StructuredIp(fs, ip) ==
  {pos \in AttPos(fs) : AttAt(fs, pos).form = "obj" /\ AttAt(fs, pos).v4 = ip}

TopNames(m) == m.top.defs \cup m.top.nulls

\* the last step was a run of scanAndFix in which every manifest was
\* readable YAML and no write threw
CleanScan ==
  /\ last.op = "scan"
  /\ \A d \in Projects : last.pre[d].ok
  /\ last.writeFailed = {}

\* a clean run in which, moreover, the census dropped no project
NothingSkipped == CleanScan /\ last.failed = {}

(***************************************************************************)
(* Properties of the reconciler                                            *)
(***************************************************************************)

\* C1: after a run of scanAndFix in which every manifest parsed and every
\* write succeeded, no host port appears in two port mappings of the workspace
P1_PortUniqueness ==
  CleanScan => \A x, y \in HostPos(files) : x # y => PortAt(files, x).host # PortAt(files, y).host

\* C2: after a run of scanAndFix in which every manifest parsed and every
\* write succeeded, no static address appears in two network attachments
P2_IpUniqueness ==
  CleanScan => \A x, y \in IpPos(files) : x # y => AttIp(AttAt(files, x)) # AttIp(AttAt(files, y))

\* C3: a reconcile leaves unchanged every mapping whose host port is declared
\* by exactly one mapping that has a host port, and every attachment whose
\* address is declared exactly once
P3_SingletonPreservation ==
  last.op = "scan" =>
    /\ \A x \in HostPos(last.pre) :
         SameHost(last.pre, PortAt(last.pre, x).host) = {x} => PortAt(files, x) = PortAt(last.pre, x)
    /\ \A x \in IpPos(last.pre) :
         SameIp(last.pre, AttIp(AttAt(last.pre, x))) = {x} => AttAt(files, x) = AttAt(last.pre, x)

\* C4: the second of two runs in a row with no edit between them writes no
\* manifest and does not rewrite the mapper file
P4_Idempotence ==
  last.cleanRuns = 2 => last.wrote = {} /\ ~last.mapperWrote

\* host ports the run gave out: the hosts of the mappings it changed
NewHosts == {PortAt(files, x).host : x \in {y \in HostPos(last.pre) : PortAt(files, y) # PortAt(last.pre, y)}}

\* C5: of k >= 2 mappings that share host port h, exactly one keeps h and
\* the others get pairwise distinct host ports, each the smallest integer
\* from 10000 on that was not in use when it was given out
PortCollision ==
  NothingSkipped =>
    \A h \in HostsInUse(last.pre) :
      LET S == SameHost(last.pre, h)
      IN Cardinality(S) >= 2 =>
           /\ Cardinality({x \in S : PortAt(files, x).host = h}) = 1
           /\ \A x, y \in S : x # y => PortAt(files, x).host # PortAt(files, y).host
           /\ \A x \in S : PortAt(files, x).host # h =>
                /\ PortAt(files, x).host >= ProbeStart
                /\ \A n \in ProbeStart..(PortAt(files, x).host - 1) :
                     n \in HostsInUse(last.pre) \cup NewHosts

\* C6: of k >= 2 attachments that declare the same address in the form
\* { ipv4_address: ip }, exactly one keeps it and the others get pairwise
\* distinct new addresses
IpCollision ==
  NothingSkipped =>
    \A ip \in {AttIp(AttAt(last.pre, x)) : x \in IpPos(last.pre)} :
      LET S == StructuredIp(last.pre, ip)
      IN Cardinality(S) >= 2 =>
           /\ Cardinality({x \in S : AttAt(files, x).v4 = ip}) = 1
           /\ \A x, y \in S : x # y => AttAt(files, x).v4 # AttAt(files, y).v4

\* the manifests the last run processed and wrote (or found up to date)
Processed == IF last.op = "scan" THEN Projects \ (last.failed \cup last.writeFailed) ELSE {}

\* C7: in every manifest a reconcile processed, each network a service
\* references is in the top-level block, and the block holds nothing but
\* referenced networks and the default network
P5_NetworksClosure ==
  \A d \in Processed :
    /\ UsedNets(files[d].services) \subseteq TopNames(files[d])
    /\ TopNames(files[d]) \subseteq UsedNets(files[d].services) \cup {DefaultNet}

\* a processed manifest that lacked a referenced network and listed an
\* unreferenced one before the run
P5_Witness ==
  \E d \in Processed :
    /\ last.pre[d].top.present
    /\ ~(UsedNets(last.pre[d].services) \subseteq TopNames(last.pre[d]))
    /\ ~(TopNames(last.pre[d]) \subseteq UsedNets(last.pre[d].services) \cup {DefaultNet})

(***************************************************************************)
(* Properties of the server                                                *)
(***************************************************************************)

\* C8: while a PTY session is open no manifest of the workspace is written,
\* whatever ticks and user operations run beside it
P8_SkipGuarantee == [][SessionActive => files' = files]_vars

\* C9: a tick that starts while activeTerminalCount > 0 starts no project
\* discovery, writes no manifest and does not write the mapper file
SkipRule ==
  [][activeTerminalCount > 0 =>
       /\ inflight'.tick <= inflight.tick
       /\ ticked' # ticked => files' = files /\ mapperFile' = mapperFile /\ inflight' = inflight]_vars

\* a tick was skipped and the session that made it skip is still open
SkipRule_Witness == ticked = "skipped" /\ activeTerminalCount > 0

\* C10: at most one run of scanAndFix is in progress at any time
OneReconcileAtATime == InFlight <= 1

(***************************************************************************)
(* The attach sockets of /ws/attach, one action per handler                *)
(***************************************************************************)

\* Math.max(0, activeTerminalCount - 1)
DecCount(c) == IF c - 1 > 0 THEN c - 1 ELSE 0

\* wss.on('connection'): the counter goes up; then a rejection (no file or
\* service, no compose file, no address for a log stream, a spawn that
\* throws: error message, ws.close() and the decrement before the handler
\* returns), or the branch of the action. Log, stop and restart spawn a bash
\* PTY and register their listeners before the handler returns, stop and
\* restart after setting the transient entry of the service; inspect awaits
\* the log history and exec awaits the container id, with no listener yet
wsAttach(s, action, projectDir, rejected) ==
  /\ ws[s].phase = "idle"
  /\ IF rejected
     THEN /\ ws' = [ws EXCEPT ![s] = [wsIdle EXCEPT !.action = action, !.phase = "done",
                                                     !.sock = "closed", !.decs = 1]]
          /\ activeTerminalCount' = DecCount(activeTerminalCount + 1)
          /\ UNCHANGED transientStatus
     ELSE /\ activeTerminalCount' = activeTerminalCount + 1
          /\ ws' = [ws EXCEPT ![s] =
                      IF action \in {"inspect", "exec"}
                      THEN [wsIdle EXCEPT !.action = action, !.phase = "starting", !.sock = "open"]
                      ELSE [wsIdle EXCEPT !.action = action, !.phase = "live", !.sock = "open",
                                          !.listening = TRUE, !.term = TRUE, !.cmd = "bash",
                                          !.projectDir = IF action = "log" THEN "" ELSE projectDir]]
          /\ transientStatus' = IF action = "stop" THEN [transientStatus EXCEPT ![projectDir] = "stopping"]
                                ELSE IF action = "restart" THEN [transientStatus EXCEPT ![projectDir] = "restarting"]
                                ELSE transientStatus
  /\ UNCHANGED <<files, mapperFile, inflight, sessions, applying, ticked, last, nginx, http, apps, running, op, polled>>

\* the respawns of one inspect session that the model follows
MaxHandlers == 3

\* the await of the start-up returns. inspect: spawnFollow() starts bash,
\* the idle monitor and one more message listener, and then ws.on('close')
\* is called, whatever became of the socket; a spawn that throws starts
\* none of them. exec: with a container id the PTY runs docker exec and the
\* listeners are registered; without one (or when the lookup rejects) the
\* socket is closed and the counter decremented. late: a child was started
\* for a socket that had closed
wsStarted(s, found) ==
  /\ ws[s].phase = "starting"
  /\ IF ws[s].action = "inspect"
     THEN /\ ws' = [ws EXCEPT ![s].phase = "live", ![s].term = found, ![s].listening = TRUE,
                              ![s].cmd = IF found THEN "bash" ELSE @,
                              ![s].handlers = IF found THEN 1 ELSE 0,
                              ![s].monitor = found,
                              ![s].late = found /\ ws[s].sock # "open"]
          /\ UNCHANGED activeTerminalCount
     ELSE IF found
          THEN /\ ws' = [ws EXCEPT ![s].phase = "live", ![s].term = TRUE, ![s].listening = TRUE,
                                   ![s].cmd = "docker", ![s].handlers = 1,
                                   ![s].late = ws[s].sock # "open"]
               /\ UNCHANGED activeTerminalCount
          ELSE /\ ws' = [ws EXCEPT ![s].phase = "done", ![s].sock = "closed", ![s].decs = @ + 1]
               /\ activeTerminalCount' = DecCount(activeTerminalCount)
  /\ UNCHANGED <<files, mapperFile, inflight, sessions, applying, ticked, last, nginx, http, ops>>

\* onCloseCleanup of a stop or restart session deletes the transient entry
\* of its service; the cleanups of the other actions leave the table alone
wsClearTransient(s) ==
  IF ws[s].action \in {"stop", "restart"}
  THEN [transientStatus EXCEPT ![ws[s].projectDir] = "none"] ELSE transientStatus

\* the 'close' event reaches the listeners registered at that moment:
\* onCloseCleanup (once: the child is killed, the counter decremented) and,
\* in an inspect session, the two intervals are cleared
wsOnClose(w, by) ==
  IF w.listening
  THEN [w EXCEPT !.sock = "closed", !.closedBy = by,
                 !.sessionClosed = TRUE,
                 !.killed = IF w.sessionClosed THEN @ ELSE w.term,
                 !.decs = IF w.sessionClosed THEN @ ELSE @ + 1,
                 !.monitor = FALSE, !.countdown = 0]
  ELSE [w EXCEPT !.sock = "closed", !.closedBy = by]

\* the socket is closed by the client
wsClose(s) ==
  /\ ws[s].sock = "open"
  /\ ws' = [ws EXCEPT ![s] = wsOnClose(ws[s], "client")]
  /\ IF ws[s].listening /\ ~ws[s].sessionClosed
     THEN /\ activeTerminalCount' = DecCount(activeTerminalCount)
          /\ transientStatus' = wsClearTransient(s)
     ELSE UNCHANGED <<activeTerminalCount, transientStatus>>
  /\ UNCHANGED <<files, mapperFile, inflight, sessions, applying, ticked, last, nginx, http, apps, running, op, polled>>

\* term.on('exit'). inspect: no cleanup; firstRun is cleared and the 3 s
\* timer of the respawn is set. The other actions: onCloseCleanup()
\* (guarded by sessionClosed) and ws.close()
wsTermExit(s) ==
  /\ ws[s].term
  /\ IF ws[s].action = "inspect"
     THEN /\ ws' = [ws EXCEPT ![s].firstRun = FALSE, ![s].term = FALSE, ![s].killed = FALSE,
                              ![s].respawn = TRUE]
          /\ UNCHANGED <<activeTerminalCount, transientStatus>>
     ELSE IF ws[s].sessionClosed
          THEN /\ ws' = [ws EXCEPT ![s].term = FALSE, ![s].killed = FALSE,
                                   ![s].phase = "done", ![s].sock = "closed"]
               /\ UNCHANGED <<activeTerminalCount, transientStatus>>
          ELSE /\ ws' = [ws EXCEPT ![s].term = FALSE, ![s].phase = "done", ![s].sock = "closed",
                                   ![s].sessionClosed = TRUE, ![s].decs = @ + 1]
               /\ activeTerminalCount' = DecCount(activeTerminalCount)
               /\ transientStatus' = wsClearTransient(s)
  /\ UNCHANGED <<files, mapperFile, inflight, sessions, applying, ticked, last, nginx, http, apps, running, op, polled>>

\* the 3 s timer of an inspect session fires: spawnFollow() if the session
\* is not closed and the socket is open; a spawn adds one message listener
wsRespawn(s, spawned) ==
  /\ ws[s].respawn
  /\ ws[s].handlers < MaxHandlers \/ ws[s].sessionClosed \/ ws[s].sock # "open"
  /\ ws' = [ws EXCEPT ![s] =
              IF ~ws[s].sessionClosed /\ ws[s].sock = "open"
              THEN [@ EXCEPT !.respawn = FALSE, !.term = spawned,
                             !.handlers = IF spawned THEN @ + 1 ELSE @,
                             !.monitor = @ \/ spawned]
              ELSE [@ EXCEPT !.respawn = FALSE]]
  /\ UNCHANGED <<files, mapperFile, activeTerminalCount, inflight, sessions, applying, ticked, last, nginx, http, ops>>

NextWs ==
  \/ \E s \in SessionIds, a \in {"inspect", "exec", "log", "stop", "restart"}, rejected \in BOOLEAN :
       wsAttach(s, a, "apps/a", rejected)
  \/ \E s \in SessionIds, found \in BOOLEAN : wsStarted(s, found)
  \/ \E s \in SessionIds : wsClose(s)
  \/ \E s \in SessionIds : wsTermExit(s)
  \/ \E s \in SessionIds, spawned \in BOOLEAN : wsRespawn(s, spawned)

SpecWs == Init /\ [][NextWs]_vars

\* C11: activeTerminalCount is never negative, no session decrements it more
\* than once, and once every socket that was opened has closed it is 0 again,
\* for every action and whenever the close happens, start-up included
TerminalCountSettles ==
  /\ activeTerminalCount >= 0
  /\ \A s \in SessionIds : ws[s].decs <= 1
  /\ (\A s \in SessionIds : ws[s].sock # "open") => activeTerminalCount = 0

(***************************************************************************)
(* POST /api/nginx/save: backup, write, test, reload, roll back            *)
(***************************************************************************)

\* up to the await of `nginx -t`: the backup copy (only if the live file
\* exists; a copy that throws is ignored) and the write of the new content.
\* A write that throws leaves through the outer catch, past every cleanup
nginxSave(content, copyFails, writeFails) ==
  /\ nginx.pc = "idle"
  /\ nginx.other.pc = "idle"
  /\ LET backedUp == nginx.live # "absent" /\ ~copyFails
         tmp == IF backedUp THEN nginx.live ELSE "absent"
     IN nginx' = IF writeFails
                 THEN [nginxIdle(nginx.live) EXCEPT !.tmp = tmp, !.backedUp = backedUp, !.res = "error"]
                 ELSE [live |-> content, tmp |-> tmp, pc |-> "test", backedUp |-> backedUp,
                       pre |-> nginx.live, ran |-> <<>>, res |-> "none", other |-> overlapIdle]
  /\ UNCHANGED <<core, ws, http, ops>>

\* if (backedUp) copyFileSync(tmp, f)
nginxRestore(n) ==
  IF n.backedUp THEN n.tmp ELSE n.live

\* `nginx -t` returns. Failure: restore, remove the backup (if
\* (existsSync(tmp)) unlinkSync(tmp)), answer 500 with
\* phase 'test'. Success: start `nginx -s reload`
nginxTested(ok) ==
  /\ nginx.pc = "test"
  /\ nginx' = IF ok
              THEN [nginx EXCEPT !.pc = "reload", !.ran = Append(@, <<"test", TRUE>>)]
              ELSE [nginx EXCEPT !.pc = "idle", !.ran = Append(@, <<"test", FALSE>>),
                                 !.live = nginxRestore(nginx),
                                 !.tmp = "absent",
                                 !.res = "test"]
  /\ UNCHANGED <<core, ws, http, ops>>

\* `nginx -s reload` returns. Success: remove the backup, answer applied.
\* Failure: start `systemctl reload nginx`
nginxReloaded(ok) ==
  /\ nginx.pc = "reload"
  /\ nginx' = IF ok
              THEN [nginx EXCEPT !.pc = "idle", !.ran = Append(@, <<"reload", TRUE>>),
                                 !.tmp = "absent", !.res = "applied"]
              ELSE [nginx EXCEPT !.pc = "systemctl", !.ran = Append(@, <<"reload", FALSE>>)]
  /\ UNCHANGED <<core, ws, http, ops>>

\* `systemctl reload nginx` returns. Success: remove the backup, answer
\* applied by systemctl. Failure: restore, remove the backup, answer 500
\* with phase 'reload'
nginxSystemctl(ok) ==
  /\ nginx.pc = "systemctl"
  /\ nginx' = [nginx EXCEPT !.pc = "idle", !.ran = Append(@, <<"systemctl", ok>>),
                            !.live = IF ok THEN @ ELSE nginxRestore(nginx),
                            !.tmp = "absent",
                            !.res = IF ok THEN "systemctl" ELSE "reload"]
  /\ UNCHANGED <<core, ws, http, ops>>

NextNginx ==
  \/ \E c \in {"conf0", "conf1", "conf2"}, cf, wf \in BOOLEAN : nginxSave(c, cf, wf)
  \/ \E ok \in BOOLEAN : nginxTested(ok)
  \/ \E ok \in BOOLEAN : nginxReloaded(ok)
  \/ \E ok \in BOOLEAN : nginxSystemctl(ok)

SpecNginx == Init /\ [][NextNginx]_vars

\* C12: when the config test fails, on return the live proxy config has
\* exactly its content from before the call, whether or not the backup copy
\* succeeded, and the response carries phase "test"
TestFailureRestores ==
  nginx.pc = "idle" /\ nginx.ran = <<<<"test", FALSE>>>> => nginx.live = nginx.pre /\ nginx.res = "test"

\* C13: after a passing test the reload is tried with the proxy binary
\* first and with the service manager only if that failed; if both fail the
\* live config has its content from before the call and the response
\* carries phase "reload"; in every outcome the backup file is gone on return
ReloadOrRollback ==
  nginx.pc = "idle" /\ nginx.ran # <<>> /\ nginx.ran[1] = <<"test", TRUE>> =>
    /\ nginx.ran \in {<<<<"test", TRUE>>, <<"reload", TRUE>>>>,
                      <<<<"test", TRUE>>, <<"reload", FALSE>>, <<"systemctl", TRUE>>>>,
                      <<<<"test", TRUE>>, <<"reload", FALSE>>, <<"systemctl", FALSE>>>>}
    /\ nginx.ran[Len(nginx.ran)] = <<"systemctl", FALSE>> =>
         nginx.live = nginx.pre /\ nginx.res = "reload"
    /\ nginx.tmp = "absent"

(***************************************************************************)
(* The HTTP stack: routes and middleware in the order of registration      *)
(***************************************************************************)

\* the layers of the express app that match under /api, in source order:
\* the routes first, the authentication middleware last
Stack ==
  <<"/api/mapper", "/api/next-ip", "/api/networks", "/api/networks/create",
    "/api/networks/delete", "/api/networks/update", "/api/status", "/api/attach",
    "/api/nginx", "/api/nginx/save", "/api/stop", "/api/restart", "/api/apply",
    "/api/add", "/api/rename", "/api/delete", "/api/save-config", "/api/config",
    "/api/config-files", "/api/stats", "/api/login", "use /api/">>

\* req.path === '/login' || '/stats' || '/mapper' below the mount point
AuthExempt == {"/api/login", "/api/stats", "/api/mapper"}

\* authMiddleware: what it answers and what it leaves of the session
authMiddleware(session, token, sameIp) ==
  IF token # "t1" \/ ~session.exists THEN [next |-> FALSE, session |-> session]
  ELSE IF session.age > SESSION_TIMEOUT \/ ~sameIp THEN [next |-> FALSE, session |-> NoSession]
  ELSE [next |-> TRUE, session |-> [session EXCEPT !.age = 0]]

\* express walks the layers in order: a route that matches runs its handler,
\* which answers and never calls next(); the middleware answers 401 or
\* passes the request on; a request no layer answers gets 404
RECURSIVE dispatch(_, _, _, _, _)
dispatch(stack, path, session, token, sameIp) ==
  IF stack = <<>> THEN [status |-> 404, ran |-> FALSE, session |-> session, checked |-> FALSE]
  ELSE IF Head(stack) = "use /api/"
       THEN IF path \in AuthExempt
            THEN dispatch(Tail(stack), path, session, token, sameIp)
            ELSE LET a == authMiddleware(session, token, sameIp)
                 IN IF a.next
                    THEN [dispatch(Tail(stack), path, a.session, token, sameIp) EXCEPT !.checked = TRUE]
                    ELSE [status |-> 401, ran |-> FALSE, session |-> a.session, checked |-> TRUE]
       ELSE IF Head(stack) = path THEN [status |-> 200, ran |-> TRUE, session |-> session, checked |-> FALSE]
       ELSE dispatch(Tail(stack), path, session, token, sameIp)

\* the clean-up filter of /api/login: the attempts younger than the window
Recent(attemptsList) == SelectSeq(attemptsList, LAMBDA attempt : attempt < AUTH_WINDOW_MS)

rateLimited_Never(attempts) == FALSE

\* the rate-limit test of /api/login
rateLimited(attempts) == Len(attempts) >= MAX_AUTH_ATTEMPTS

\* POST /api/login from clientIP: clean every address's list, answer 429
\* when the address's list is full, 400 without a password, 401 with a wrong
\* one (both recorded as attempts), and store a session for the right one
apiLogin(clientIP, password) ==
  /\ LET cleaned == [ip \in ClientIps |-> Recent(http.authAttempts[ip])]
         attempts == cleaned[clientIP]
         status == IF rateLimited(attempts) THEN 429
                   ELSE IF password = "none" THEN 400
                   ELSE IF password = "right" THEN 200 ELSE 401
     IN http' = [session |-> IF status = 200 /\ ~http.session.exists
                             THEN [exists |-> TRUE, age |-> 0, issued |-> 0] ELSE http.session,
                 authAttempts |-> IF status \in {400, 401}
                                  THEN [cleaned EXCEPT ![clientIP] = Append(attempts, 0)] ELSE cleaned,
                 req |-> [NoRequest EXCEPT !.path = "/api/login", !.status = status, !.ran = TRUE,
                            !.ip = clientIP, !.password = password, !.issued = (status = 200),
                            !.recent = Cardinality({i \in DOMAIN http.authAttempts[clientIP] :
                                                      http.authAttempts[clientIP][i] < AUTH_WINDOW_MS})]]
  /\ UNCHANGED <<core, ws, nginx, ops>>

\* one step of the window clock passes: every recorded attempt is that much older
attemptsAge ==
  /\ \E ip \in ClientIps : \E i \in DOMAIN http.authAttempts[ip] : http.authAttempts[ip][i] < AUTH_WINDOW_MS
  /\ http' = [http EXCEPT !.authAttempts = [ip \in ClientIps |->
                 [i \in DOMAIN http.authAttempts[ip] |->
                    IF http.authAttempts[ip][i] < AUTH_WINDOW_MS THEN http.authAttempts[ip][i] + 1
                    ELSE http.authAttempts[ip][i]]]]
  /\ UNCHANGED <<core, ws, nginx, ops>>

\* one step of the session clock passes: the session is that much older
sessionTimeout ==
  /\ http.session.exists
  /\ http.session.issued <= SESSION_TIMEOUT
  /\ http' = [http EXCEPT !.session.issued = @ + 1,
                          !.session.age = IF @ <= SESSION_TIMEOUT THEN @ + 1 ELSE @]
  /\ UNCHANGED <<core, ws, nginx, ops>>

\* one request: a path under /api through the express stack, or the upgrade
\* to /ws/attach, which the WebSocketServer takes from the HTTP server
\* without passing through express; the connection handler reads file,
\* service, action and ip from the query and nothing else
httpRequest(path, token, sameIp) ==
  /\ LET valid == token = "t1" /\ http.session.exists /\ http.session.age <= SESSION_TIMEOUT /\ sameIp
         d == IF path = "/ws/attach"
              THEN [status |-> 101, ran |-> TRUE, session |-> http.session, checked |-> FALSE]
              ELSE dispatch(Stack, path, http.session, token, sameIp)
     IN http' = [http EXCEPT !.session = d.session,
                 !.req = [NoRequest EXCEPT !.path = path, !.token = token, !.sameIp = sameIp, !.valid = valid,
                            !.status = d.status, !.ran = d.ran, !.checked = d.checked,
                            !.had = (token = "t1" /\ http.session.exists),
                            !.old = (http.session.issued > SESSION_TIMEOUT)]]
  /\ UNCHANGED <<core, ws, nginx, ops>>

NextHttp ==
  \/ \E clientIP \in ClientIps : apiLogin(clientIP, "right")
  \/ sessionTimeout
  \/ \E i \in 1..(Len(Stack) - 2), token \in {"none", "t1", "t2"}, sameIp \in BOOLEAN :
       httpRequest(Stack[i], token, sameIp)
  \/ \E path \in {"/ws/attach", "/api/unknown"}, token \in {"none", "t1", "t2"}, sameIp \in BOOLEAN :
       httpRequest(path, token, sameIp)

SpecHttp == Init /\ [][NextHttp]_vars

\* C14: a request to an endpoint that requires authentication (every route
\* under /api but login, stats and mapper, and the /ws/attach socket) that
\* carries no valid session token is answered 401 and its handler does not run
Unauthorized401 ==
  http.req.path \in ({Stack[i] : i \in 1..(Len(Stack) - 1)} \cup {"/ws/attach"}) \ AuthExempt
    /\ ~http.req.valid
    => http.req.status = 401 /\ ~http.req.ran

(***************************************************************************)
(* Operations on a project: stop, restart, rename, delete, status poll     *)
(***************************************************************************)

\* path.basename(p)
Basename(p) == IF p = <<>> THEN "" ELSE p[Len(p)]

\* path.join(appsDir, name) for the projects the reconciler knows
AppDir == [a |-> "apps/a", b |-> "apps/b"]

\* what findProjectDirs finds under apps/
ProjectDirs(names) == {AppDir[n] : n \in names \cap DOMAIN AppDir}

\* POST /api/stop and /api/restart up to the await of the CLI: 404 without
\* a compose file, else the transient entry is set
apiLifecycle(kind, path) ==
  /\ op.pc = "idle"
  /\ IF Basename(path) \in apps \cap DOMAIN AppDir
     THEN /\ transientStatus' = [transientStatus EXCEPT ![AppDir[Basename(path)]] =
                                   IF kind = "stop" THEN "stopping" ELSE "restarting"]
          /\ op' = [opIdle EXCEPT !.kind = kind, !.path = path, !.pc = "cli", !.pre = apps]
     ELSE /\ op' = [opIdle EXCEPT !.kind = kind, !.path = path, !.status = 404, !.pre = apps]
          /\ UNCHANGED transientStatus
  /\ UNCHANGED <<core, ws, nginx, http, apps, running, polled>>

\* the stop/restart script or the compose CLI returns; runs says whether the
\* service runs afterwards. An error whose stderr does not read like
\* progress deletes the entry and answers 500; else the 2 s dwell starts
opCli(outcome, runs) ==
  /\ op.pc = "cli"
  /\ running' = IF runs THEN running \cup {Basename(op.path)} ELSE running \ {Basename(op.path)}
  /\ IF outcome = "error"
     THEN /\ transientStatus' = [transientStatus EXCEPT ![AppDir[Basename(op.path)]] = "none"]
          /\ op' = [op EXCEPT !.pc = "idle", !.status = 500, !.wrote = TRUE]
     ELSE /\ op' = [op EXCEPT !.pc = "dwell", !.wrote = TRUE]
          /\ UNCHANGED transientStatus
  /\ UNCHANGED <<core, ws, nginx, http, apps, polled>>

\* after the dwell the running services are queried: the entry is deleted
\* if the query fails or the service is as expected (not running after a
\* stop, running after a restart); then the response, with no scanAndFix
opChecked(fails) ==
  /\ op.pc = "dwell"
  /\ LET isRunning == Basename(op.path) \in running
         expected == IF op.kind = "stop" THEN ~isRunning ELSE isRunning
     IN transientStatus' = IF fails \/ expected
                           THEN [transientStatus EXCEPT ![AppDir[Basename(op.path)]] = "none"]
                           ELSE transientStatus
  /\ op' = [op EXCEPT !.pc = "idle", !.status = IF op.restart.err THEN 500 ELSE 200]
  /\ UNCHANGED <<core, ws, nginx, http, apps, running, polled>>

mapperStatus_NoTransient(t, failed, isRunning) ==
  IF failed THEN "unknown" ELSE IF isRunning THEN "running" ELSE "stopped"

\* the status /api/mapper gives a service: 'unknown' by default, running or
\* stopped when the query of the running services returned, and the
\* transient entry t over both
mapperStatus(t, failed, isRunning) ==
  IF t # "none" THEN t ELSE IF failed THEN "unknown" ELSE IF isRunning THEN "running" ELSE "stopped"

\* GET /api/mapper, the query of the running services failing for the
\* projects in psFails; transientStatus is read, not written. polled is the
\* latest response, odd tells one poll from the next
apiMapperStatus(psFails) ==
  /\ polled' = [status |-> [d \in Projects |->
                              mapperStatus(transientStatus[d], d \in psFails,
                                           \E n \in running \cap DOMAIN AppDir : AppDir[n] = d)],
                failed |-> psFails,
                odd |-> ~polled.odd]
  /\ UNCHANGED <<core, ws, nginx, http, apps, running, transientStatus, op>>

\* a rename with no template guard
isTemplate_Never(name) == FALSE

\* projectName === 'template'
isTemplate(name) == name = "template"

\* POST /api/rename up to the await of the running-services query
apiRename(oldPath, newName) ==
  /\ op.pc = "idle"
  /\ LET name == Basename(oldPath)
         status == IF isTemplate(name) THEN 400
                   ELSE IF name \notin apps THEN 404
                   ELSE IF newName \in apps THEN 400
                   ELSE 0
     IN op' = [opIdle EXCEPT !.kind = "rename", !.path = oldPath, !.newName = newName, !.pre = apps,
                             !.status = status, !.pc = IF status = 0 THEN "query" ELSE "idle"]
  /\ UNCHANGED <<core, ws, nginx, http, apps, running, transientStatus, polled>>

\* POST /api/delete up to the await of the running-services query
apiDelete(path, confirmName) ==
  /\ op.pc = "idle"
  /\ LET name == Basename(path)
         status == IF name \notin apps THEN 404
                   ELSE IF confirmName # name THEN 400
                   ELSE IF isTemplate(name) THEN 400
                   ELSE 0
     IN op' = [opIdle EXCEPT !.kind = "delete", !.path = path, !.confirmName = confirmName, !.pre = apps,
                             !.status = status, !.pc = IF status = 0 THEN "query" ELSE "idle"]
  /\ UNCHANGED <<core, ws, nginx, http, apps, running, transientStatus, polled>>

\* the running-services query of rename and delete returns. A service runs:
\* 400. None runs, or the query failed or timed out ("assume stopped"): the
\* folder is renamed or removed and scanAndFix starts
opQueried(fails) ==
  /\ op.pc = "query"
  /\ LET name == Basename(op.path)
     IN IF ~fails /\ name \in running
        THEN /\ op' = [op EXCEPT !.pc = "idle", !.status = 400, !.running = TRUE]
             /\ UNCHANGED <<files, inflight, apps, running>>
        ELSE /\ InFlight < MaxInFlight
             /\ op' = [op EXCEPT !.pc = "scan", !.wrote = TRUE, !.running = name \in running]
             /\ apps' = IF op.kind = "rename" THEN (apps \ {name}) \cup {op.newName} ELSE apps \ {name}
             /\ files' = IF op.kind = "rename" /\ name \in DOMAIN AppDir /\ op.newName \in DOMAIN AppDir
                         THEN [files EXCEPT ![AppDir[op.newName]] = files[AppDir[name]]]
                         ELSE files
             /\ running' = running \ {name}
             /\ inflight' = [inflight EXCEPT !.user = @ + 1]
  /\ UNCHANGED <<mapperFile, activeTerminalCount, sessions, applying, ticked, last,
                 ws, nginx, http, transientStatus, polled>>

\* the scanAndFix that rename and delete await finishes; then the response
opScanned(writeFails) ==
  /\ op.pc = "scan"
  /\ ScanEnds("user", scanAndFix(files, mapperFile, ProjectDirs(apps), writeFails))
  /\ op' = [op EXCEPT !.pc = "idle", !.status = 200, !.scanned = TRUE]
  /\ UNCHANGED <<last, ws, nginx, http, apps, running, transientStatus, polled>>

NextLifecycle ==
  \/ \E kind \in {"stop", "restart"}, path \in {<<"apps", "a">>, <<"apps", "b">>} : apiLifecycle(kind, path)
  \/ \E outcome \in {"ok", "noted", "error"}, runs \in BOOLEAN : opCli(outcome, runs)
  \/ \E fails \in BOOLEAN : opChecked(fails)
  \/ apiMapperStatus({})

\* the callbacks of a handler that awaits run when the CLI and the timer
\* return (every CLI call has a timeout); the console polls /api/mapper
SpecLifecycle ==
  /\ Init /\ [][NextLifecycle]_vars
  /\ WF_vars(\E outcome \in {"ok", "noted", "error"}, runs \in BOOLEAN : opCli(outcome, runs))
  /\ WF_vars(\E fails \in BOOLEAN : opChecked(fails))
  /\ WF_vars(apiMapperStatus({}))

NextOps ==
  \/ NextLifecycle
  \/ \E oldPath \in {<<"apps", "a">>, <<"apps", "template">>, <<"template">>}, newName \in {"a", "b"} :
       apiRename(oldPath, newName)
  \/ \E path \in {<<"apps", "b">>, <<"apps", "template">>, <<"template">>}, confirmName \in {"b", "template"} :
       apiDelete(path, confirmName)
  \/ \E fails \in BOOLEAN : opQueried(fails)
  \/ \E wf \in {{}, Projects} : opScanned(wf)

SpecOps == Init /\ [][NextOps]_vars

\* C15: a transient entry set by stop or restart is cleared without a further
\* lifecycle request: after the dwell if the service is as expected, else on
\* a later status poll; so it is never set for good while no stop or restart
\* is in progress
TransientCleared ==
  \A d \in Projects : []<>(transientStatus[d] = "none" \/ op.pc \in {"cli", "dwell"})

\* C18: every successful operation of the user (rename, delete, stop,
\* restart; apply likewise) has invoked its write or CLI call and then
\* awaited a complete scanAndFix before it answers
ReconcileBeforeResponse ==
  op.pc = "idle" /\ op.status = 200 => op.wrote /\ op.scanned

\* C19: a rename or delete handled while a service of the project runs is
\* answered 400 and leaves the folders as they were, whether the
\* running-services query succeeds, fails or times out
RunningBlocksRemoval ==
  op.pc \in {"idle", "scan"} /\ op.kind \in {"rename", "delete"} /\ op.running =>
    op.status = 400 /\ apps = op.pre

\* C20: a rename or delete whose target folder is named template fails and
\* leaves the folder template in place under its name; a delete whose
\* confirmName differs from the folder name fails and touches no folder
TemplateAndConfirmGuards ==
  /\ op.kind \in {"rename", "delete"} /\ Basename(op.path) = "template" =>
       op.pc = "idle" /\ op.status \in {400, 404} /\ apps = op.pre /\ "template" \in apps
  /\ op.kind = "delete" /\ op.confirmName # Basename(op.path) =>
       op.pc = "idle" /\ op.status \in {400, 404} /\ apps = op.pre

\* a delete of apps/template, confirmed by name, was refused
TemplateAndConfirmGuards_Witness ==
  /\ op.kind = "delete" /\ Basename(op.path) = "template" /\ op.confirmName = "template"
  /\ op.status = 400 /\ "template" \in apps

(***************************************************************************)
(* POST /api/apply with requests that add, keep and remove services        *)
(***************************************************************************)

ApplyRequests ==
  { <<Change("web", TRUE, <<PortHC(8080, 80)>>, FALSE, <<>>)>>,
    <<Change("api", FALSE, <<>>, TRUE, <<Net(DefaultNet, AttStr(CoreIp(5)))>>)>>,
    <<Change("web", FALSE, <<>>, FALSE, <<>>), Change("api", FALSE, <<>>, FALSE, <<>>)>> }

\* apiApplyWrite, with the history of the apply recorded: the request and
\* the workspace before the write
Apply(a, writeFails) ==
  /\ apiApplyWrite(a, writeFails)
  /\ last' = [op |-> IF writeFails THEN "apply failed" ELSE "apply",
              dir |-> a.dir, req |-> a.req, pre |-> files]
  /\ UNCHANGED rest

NextApply ==
  \/ \E d \in Projects, r \in ApplyRequests : apiApplyRead(d, r) /\ UNCHANGED <<last, rest>>
  \/ \E a \in applying, wf \in BOOLEAN : Apply(a, wf)
  \/ \E wf \in {{}, Projects} : ScanFinish("user", wf) /\ UNCHANGED <<last, rest>>

SpecApply == Init /\ [][NextApply]_vars

\* the names of the services of a manifest or of a request
ServiceNames(services) == {services[i].name : i \in 1..Len(services)}

\* C16: after a successful /api/apply, from its write on and when the
\* scanAndFix it awaits has finished, the service names of the manifest are
\* exactly the service names of the request
ApplyReplacesServices ==
  last.op = "apply" => ServiceNames(files[last.dir].services) = ServiceNames(last.req)

\* an apply has answered that removed web and added api
ApplyReplacesServices_Witness ==
  /\ last.op = "apply" /\ inflight.user = 0
  /\ ServiceNames(last.pre[last.dir].services) = {"web"}
  /\ ServiceNames(files[last.dir].services) = {"api"}

\* C17: a service that was in the manifest and is in the request keeps,
\* through /api/apply, every field other than ports, networks, image,
\* volumes, environment and restart
ApplyKeepsOtherFields ==
  last.op = "apply" =>
    \A i \in 1..Len(last.pre[last.dir].services), j \in 1..Len(files[last.dir].services) :
      /\ last.pre[last.dir].services[i].name = files[last.dir].services[j].name
      /\ files[last.dir].services[j].name \in ServiceNames(last.req)
      => files[last.dir].services[j].extra = last.pre[last.dir].services[i].extra

\* ---------------------------------------------------------------------
\* Login attempts and session expiry
\* ---------------------------------------------------------------------

NextLogin ==
  \/ \E clientIP \in ClientIps, password \in {"none", "wrong", "right"} : apiLogin(clientIP, password)
  \/ attemptsAge

SpecLogin == Init /\ [][NextLogin]_vars

\* C21: a /api/login request from an address with 5 failed attempts inside
\* the last 15 minutes is answered 429 and issues no token, whatever the
\* password; a request with the right password from an address with fewer
\* recent failed attempts is answered 200 with a token, whatever the other
\* addresses have done
LoginRateLimit ==
  http.req.path = "/api/login" =>
    /\ http.req.recent >= MAX_AUTH_ATTEMPTS => http.req.status = 429 /\ ~http.req.issued
    /\ http.req.recent < MAX_AUTH_ATTEMPTS /\ http.req.password = "right"
         => http.req.status = 200 /\ http.req.issued

LoginRateLimit_Witness ==
  /\ http.req.path = "/api/login"
  /\ http.req.ip = "ip1"
  /\ http.req.password = "right"
  /\ http.req.recent >= MAX_AUTH_ATTEMPTS
  /\ http.req.status = 429
  /\ Len(http.authAttempts["ip2"]) < MAX_AUTH_ATTEMPTS

\* C22: a request that the authentication middleware handles and that
\* presents the session's token more than 24 hours after the token was
\* issued, or from another address than the login's, is answered 401 and the
\* token is removed
TokenExpires ==
  http.req.checked /\ http.req.had /\ (http.req.old \/ ~http.req.sameIp)
    => http.req.status = 401 /\ ~http.session.exists

\* C23: every process a session has started is one of the allowed commands
\* docker, docker-compose, nginx and systemctl
AllowedCommandsOnly ==
  \A s \in SessionIds : ws[s].cmd \in {"none", "docker", "docker-compose", "nginx", "systemctl"}

\* ---------------------------------------------------------------------
\* The status column of /api/mapper
\* ---------------------------------------------------------------------

NextMapper ==
  \/ \E kind \in {"stop", "restart"}, path \in {<<"apps", "a">>, <<"apps", "b">>} : apiLifecycle(kind, path)
  \/ \E outcome \in {"ok", "noted", "error"}, runs \in BOOLEAN : opCli(outcome, runs)
  \/ \E fails \in BOOLEAN : opChecked(fails)
  \/ \E psFails \in SUBSET Projects : apiMapperStatus(psFails)

SpecMapper == Init /\ [][NextMapper]_vars

\* C24: every /api/mapper response gives a service its transient entry if
\* it has one; otherwise running or stopped as the query of the running
\* services says when that query succeeded, and unknown when it failed
MapperStatusOf ==
  [][polled' # polled =>
       \A d \in Projects :
         LET isRunning == \E n \in running \cap DOMAIN AppDir : AppDir[n] = d
         IN /\ transientStatus[d] # "none" => polled'.status[d] = transientStatus[d]
            /\ transientStatus[d] = "none" /\ d \notin polled'.failed
                 => polled'.status[d] = IF isRunning THEN "running" ELSE "stopped"
            /\ transientStatus[d] = "none" /\ d \in polled'.failed => polled'.status[d] = "unknown"]_vars

MapperStatusOf_Witness ==
  /\ polled.status["apps/a"] = "stopping"
  /\ polled.status["apps/b"] = "unknown"
  /\ polled.failed = Projects
  /\ "a" \in running

\* ---------------------------------------------------------------------
\* Failures inside a reconciliation run
\* ---------------------------------------------------------------------

\* the projects other than d have, after the run, the manifest and the
\* mapper entry that the run res gives them
OthersAsIn(d, res) ==
  \A e \in Projects \ {d} :
    /\ files[e] = res.files[e]
    /\ (e \in DOMAIN mapperFile.content) = (e \in DOMAIN res.mapperFile.content)
    /\ e \in DOMAIN mapperFile.content => mapperFile.content[e] = res.mapperFile.content[e]

\* C25: after a run in which the census dropped a project, that project's
\* manifest is as before, the mapper has no entry for it, and every other
\* project has the manifest and the mapper entry that the same run gives it
\* in a workspace without the dropped project
FailedProjectIsolated ==
  last.op = "scan" =>
    \A d \in last.failed :
      /\ files[d] = last.pre[d]
      /\ d \notin DOMAIN mapperFile.content
      /\ OthersAsIn(d, scanAndFix(last.pre, mapperFile, Projects \ {d}, last.writeFailed))

\* the projects the run wrote have the manifest and the mapper entry that
\* the run res gives them
WrittenAsIn(res) ==
  \A e \in Projects \ (last.failed \cup last.writeFailed) :
    /\ files[e] = res.files[e]
    /\ e \in DOMAIN res.mapperFile.content
    /\ mapperFile.content[e] = res.mapperFile.content[e]

\* C26: after a run in which the write of a project's manifest failed, that
\* manifest is as before, the mapper holds exactly the projects whose writes
\* succeeded, and each of those has the manifest and the mapper entry that
\* the run gives it when no write fails
WriteFailureIsolated ==
  last.op = "scan" =>
    /\ \A d \in last.writeFailed : files[d] = last.pre[d]
    /\ mapperFile.exists
    /\ DOMAIN mapperFile.content = Projects \ (last.failed \cup last.writeFailed)
    /\ WrittenAsIn(scanAndFix(last.pre, mapperFile, Projects, {}))

WriteFailureIsolated_Witness ==
  /\ last.op = "scan"
  /\ last.writeFailed = {"apps/a"}
  /\ last.failed = {}
  /\ last.wrote = {"apps/b"}
  /\ files["apps/a"] # scanAndFix(last.pre, mapperFile, Projects, {}).files["apps/a"]

\* the addresses the attachments of a workspace hold
UsedIps(fs) == {AttIp(AttAt(fs, x)) : x \in IpPos(fs)}

\* C27: an attachment whose address a run replaced, in a run that dropped no
\* project and failed no write, holds base.h of the core
\* subnet, and every base.h' with h' in 2..h-1 is held by an attachment of
\* the workspace, before the run or after it; an address of another subnet
\* with last octet h' does not count
SmallestFreeAddress ==
  last.op = "scan" /\ last.failed = {} /\ last.writeFailed = {} =>
    \A pos \in IpPos(last.pre) :
      pos[1] \in Processed /\ AttIp(AttAt(files, pos)) # AttIp(AttAt(last.pre, pos)) =>
        /\ AttIp(AttAt(files, pos)).base = NETWORK_base
        /\ \A h \in FirstHost..(AttIp(AttAt(files, pos)).host - 1) :
             Ip(NETWORK_base, h) \in UsedIps(last.pre) \cup UsedIps(files)

\* ---------------------------------------------------------------------
\* Single-run mode
\* ---------------------------------------------------------------------

\* runner() as a promise: the try-block around the skip test and
\* scanAndFix() catches what scanAndFix throws and logs it
runnerSettles(threw) == "resolved"

\* SINGLE_RUN: runner().then(exit 0).catch(exit 1). scanAndFix throws when
\* the workspace root cannot be listed; everything after the listing is
\* inside try-blocks of its own. last records the run and the exit code
singleRun(readdirFails, writeFails) ==
  /\ last.op # "single"
  /\ IF runnerSkips \/ readdirFails
     THEN UNCHANGED <<files, mapperFile>>
     ELSE /\ files' = scanAndFix(files, mapperFile, Projects, writeFails).files
          /\ mapperFile' = scanAndFix(files, mapperFile, Projects, writeFails).mapperFile
  /\ last' = [op |-> "single", threw |-> ~runnerSkips /\ readdirFails,
              exit |-> IF runnerSettles(~runnerSkips /\ readdirFails) = "resolved" THEN 0 ELSE 1]
  /\ UNCHANGED <<activeTerminalCount, inflight, sessions, applying, ticked, rest>>

NextSingle == \E readdirFails \in BOOLEAN, writeFails \in SUBSET Projects : singleRun(readdirFails, writeFails)

SpecSingle == InitScan /\ [][NextSingle]_vars

\* C28: a single run exits with code 1 when scanAndFix threw and with code
\* 0 when it did not
SingleRunExitCode ==
  last.op = "single" => last.exit = IF last.threw THEN 1 ELSE 0

\* C29: after a run over a workspace in which an attachment is a bare address
\* string, the project of that attachment is in the mapper and the
\* attachment reads { ipv4_address: ip } with the same address, or with
\* another one if the address was declared more than once (unless the write
\* of the project failed)
BareAddressCanonical ==
  last.op = "scan" =>
    \A pos \in IpPos(last.pre) :
      AttAt(last.pre, pos).form = "str" /\ pos[1] \notin last.writeFailed =>
        /\ pos[1] \in DOMAIN mapperFile.content
        /\ AttAt(files, pos).form = "obj"
        /\ \/ AttAt(files, pos).v4 = AttAt(last.pre, pos).v4
           \/ Cardinality(SameIp(last.pre, AttAt(last.pre, pos).v4)) >= 2

\* ---------------------------------------------------------------------
\* The stop and restart flow: the HTTP request and the terminal session
\* ---------------------------------------------------------------------

NextStopFlow ==
  \/ \E kind \in {"stop", "restart"}, path \in {<<"apps", "a">>, <<"apps", "b">>} : apiLifecycle(kind, path)
  \/ \E outcome \in {"ok", "noted", "error"}, runs \in BOOLEAN : opCli(outcome, runs)
  \/ \E fails \in BOOLEAN : opChecked(fails)
  \/ apiMapperStatus({})
  \/ \E a \in {"stop", "restart"}, d \in Projects : wsAttach("s1", a, d, FALSE)
  \/ wsClose("s1")
  \/ wsTermExit("s1")

SpecStopFlow == Init /\ [][NextStopFlow]_vars

\* C30: a /api/mapper response given while an HTTP stop or restart of a
\* service is between setting its transient entry and its post-dwell check
\* reports that service as stopping or restarting
InFlightShowsTransient ==
  [][polled' # polled /\ op.pc \in {"cli", "dwell"}
       => polled'.status[AppDir[Basename(op.path)]] \in {"stopping", "restarting"}]_vars

\* ---------------------------------------------------------------------
\* The inspect and exec sessions in detail: output, idle countdown, messages
\* ---------------------------------------------------------------------

\* term.onData: the output is sent on and lastDataAt is set; nothing is
\* recorded once the send throws on a socket that is not open. heard: output
\* arrived while a countdown was running
wsData(s) ==
  /\ ws[s].term
  /\ ws[s].action = "inspect"
  /\ ws[s].sock = "open"
  /\ ws' = [ws EXCEPT ![s].silent = FALSE, ![s].heard = @ \/ ws[s].countdown > 0]
  /\ UNCHANGED <<files, mapperFile, activeTerminalCount, inflight, sessions, applying, ticked, last, nginx, http, ops>>

\* 60 s pass since lastDataAt. The countdown ticks every second, so this
\* cannot happen between an output and the next tick of a running countdown
wsSilence(s) ==
  /\ ws[s].monitor
  /\ ~ws[s].silent
  /\ ws[s].countdown = 0
  /\ ws' = [ws EXCEPT ![s].silent = TRUE]
  /\ UNCHANGED <<files, mapperFile, activeTerminalCount, inflight, sessions, applying, ticked, last, nginx, http, ops>>

\* a tick of monitorInterval: it clears itself once the session is closed,
\* and starts the countdown at 5 after 60 s of silence if none is running
wsMonitorTick(s) ==
  /\ ws[s].monitor
  /\ ws' = [ws EXCEPT ![s] =
              IF ws[s].sessionClosed THEN [@ EXCEPT !.monitor = FALSE]
              ELSE IF ws[s].silent /\ ws[s].countdown = 0
                   THEN [@ EXCEPT !.countdown = 5, !.heard = FALSE]
                   ELSE @]
  /\ UNCHANGED <<files, mapperFile, activeTerminalCount, inflight, sessions, applying, ticked, last, nginx, http, ops>>

countdownCancels_Never(silent) == FALSE

\* the test of the countdown tick: output arrived within the last 60 s
countdownCancels(silent) == ~silent

\* a tick of countdownTimer: cancelled by fresh output; else one step down,
\* and at zero ws.close(), whose 'close' event runs the listeners
wsCountdownTick(s) ==
  /\ ws[s].countdown > 0
  /\ IF countdownCancels(ws[s].silent)
     THEN /\ ws' = [ws EXCEPT ![s].countdown = 0]
          /\ UNCHANGED activeTerminalCount
     ELSE IF ws[s].countdown - 1 <= 0
          THEN /\ ws' = [ws EXCEPT ![s] = IF ws[s].sock = "open"
                                           THEN wsOnClose(ws[s], "idle")
                                           ELSE [@ EXCEPT !.countdown = 0]]
               /\ activeTerminalCount' = IF ws[s].sock = "open" /\ ws[s].listening /\ ~ws[s].sessionClosed
                                         THEN DecCount(activeTerminalCount) ELSE activeTerminalCount
          ELSE /\ ws' = [ws EXCEPT ![s].countdown = @ - 1]
               /\ UNCHANGED activeTerminalCount
  /\ UNCHANGED <<files, mapperFile, inflight, sessions, applying, ticked, last, nginx, http, ops>>

\* a client message reaches every 'message' listener of the socket; each
\* listener resizes or writes to the PTY the variable term holds
wsMessage(s, kind) ==
  /\ ws[s].sock = "open"
  /\ ws[s].phase = "live"
  /\ ws[s].action \in {"inspect", "exec"}
  /\ ws' = [ws EXCEPT ![s].msg =
              [kind |-> kind,
               writes |-> IF kind = "text" /\ ws[s].term THEN ws[s].handlers ELSE 0,
               resizes |-> IF kind = "resize" /\ ws[s].term THEN ws[s].handlers ELSE 0]]
  /\ UNCHANGED <<files, mapperFile, activeTerminalCount, inflight, sessions, applying, ticked, last, nginx, http, ops>>

NextInspect ==
  \/ \E a \in {"inspect", "exec"} : wsAttach("s1", a, "apps/a", FALSE)
  \/ \E found \in BOOLEAN : wsStarted("s1", found)
  \/ wsClose("s1")
  \/ wsTermExit("s1")
  \/ \E spawned \in BOOLEAN : wsRespawn("s1", spawned)
  \/ wsData("s1")
  \/ wsSilence("s1")
  \/ wsMonitorTick("s1")
  \/ wsCountdownTick("s1")
  \/ \E kind \in {"text", "resize"} : wsMessage("s1", kind)

SpecInspect == Init /\ [][NextInspect]_vars

\* C31: in an inspect session no follow child is started for a socket that
\* has closed, and no child is alive while the respawn timer is pending
RespawnWhileOpen ==
  \A s \in SessionIds :
    ws[s].action = "inspect" => ~ws[s].late /\ ~(ws[s].term /\ ws[s].respawn)

\* C32: an inspect session's socket is closed by the server only at the end
\* of a countdown during which no output arrived and which began after 60 s
\* without output; a countdown begins only after 60 s without output
IdleCountdown ==
  /\ [](\A s \in SessionIds :
          ws[s].action = "inspect" /\ ws[s].closedBy = "idle" => ws[s].silent /\ ~ws[s].heard)
  /\ [][\A s \in SessionIds :
          /\ ws[s].countdown = 0 /\ ws'[s].countdown > 0 => ws[s].silent /\ ws'[s].countdown = 5
          /\ ws[s].closedBy # "idle" /\ ws'[s].closedBy = "idle" => ws[s].countdown = 1]_vars

IdleCountdown_Witness ==
  /\ ws["s1"].action = "inspect"
  /\ ws["s1"].closedBy = "idle"
  /\ ws["s1"].handlers = 2
  /\ ws["s1"].sessionClosed

\* C33: a resize control message is not written to the PTY, and no other
\* client message is written to the PTY more than once
MessageWrittenOnce ==
  \A s \in SessionIds :
    /\ ws[s].msg.kind = "resize" => ws[s].msg.writes = 0
    /\ ws[s].msg.kind = "text" => ws[s].msg.writes <= 1

\* what the event loop and the operating system guarantee: a pending await
\* returns, a timer that is set fires, a killed child exits, and 60 s go by
\* when no output can be recorded; a child that was not killed may run on
SpecInspectFair ==
  /\ SpecInspect
  /\ WF_vars(\E found \in BOOLEAN : wsStarted("s1", found))
  /\ WF_vars(\E spawned \in BOOLEAN : wsRespawn("s1", spawned))
  /\ WF_vars(wsMonitorTick("s1"))
  /\ WF_vars(wsCountdownTick("s1"))
  /\ WF_vars(ws["s1"].killed /\ wsTermExit("s1"))
  /\ WF_vars(ws["s1"].sock # "open" /\ wsSilence("s1"))

\* C34: once the socket of an inspect session has closed, eventually the
\* session has no child, no respawn timer, no idle monitor and no countdown
ClosedSessionCleansUp ==
  \A s \in SessionIds :
    [](ws[s].sock = "closed" /\ ws[s].action = "inspect" =>
         <>(~ws[s].term /\ ~ws[s].respawn /\ ~ws[s].monitor /\ ws[s].countdown = 0))

(***************************************************************************)
(* POST /api/restart in detail                                             *)
(***************************************************************************)

\* POST /api/restart up to its first await: 404 without a compose file,
\* else the transient entry is set; script says whether the project has
\* an executable restart.sh
apiRestart(path, script) ==
  /\ op.pc = "idle"
  /\ IF Basename(path) \in apps \cap DOMAIN AppDir
     THEN /\ transientStatus' = [transientStatus EXCEPT ![AppDir[Basename(path)]] = "restarting"]
          /\ op' = [opIdle EXCEPT !.kind = "restart", !.path = path, !.pc = "restart", !.pre = apps,
                                  !.restart.script = script]
     ELSE /\ op' = [opIdle EXCEPT !.kind = "restart", !.path = path, !.status = 404, !.pre = apps]
          /\ UNCHANGED transientStatus
  /\ UNCHANGED <<core, ws, nginx, http, apps, running, polled>>

restartRetries_Never(script, outcome) == FALSE

\* whether the handler looks for the name-conflict diagnostic in the stderr
\* of a failed restart: only in the catch block around restart.sh
restartRetries(script, outcome) == script /\ outcome = "conflict"

\* the first restart returns: restart.sh, or docker compose restart when
\* there is no executable restart.sh. outcome "conflict" is a failure whose
\* stderr has the name-conflict diagnostic; progress says whether the stderr
\* of a failure also reads like progress of the compose CLI
restartInvoked(outcome, progress, runs) ==
  /\ op.pc = "restart"
  /\ running' = IF runs THEN running \cup {Basename(op.path)} ELSE running \ {Basename(op.path)}
  /\ LET o == [op EXCEPT !.wrote = TRUE, !.restart.calls = 1,
                         !.restart.conflict = (outcome = "conflict")]
     IN IF outcome = "ok"
        THEN op' = [o EXCEPT !.pc = "dwell"] /\ UNCHANGED transientStatus
        ELSE IF restartRetries(op.restart.script, outcome)
        THEN op' = [o EXCEPT !.pc = "rm"] /\ UNCHANGED transientStatus
        ELSE IF op.restart.script
        THEN op' = [o EXCEPT !.pc = "dwell", !.restart.err = TRUE] /\ UNCHANGED transientStatus
        ELSE IF progress
        THEN op' = [o EXCEPT !.pc = "dwell"] /\ UNCHANGED transientStatus
        ELSE /\ transientStatus' = [transientStatus EXCEPT ![AppDir[Basename(op.path)]] = "none"]
             /\ op' = [o EXCEPT !.pc = "idle", !.status = 500]
  /\ UNCHANGED <<core, ws, nginx, http, apps, polled>>

\* docker rm -f of the conflicting container returns; its failure goes to
\* the inner catch: dwell, running check, 500
restartRemoved(ok) ==
  /\ op.pc = "rm"
  /\ op' = IF ok THEN [op EXCEPT !.pc = "retry", !.restart.rm = "ok"]
           ELSE [op EXCEPT !.pc = "dwell", !.restart.rm = "failed", !.restart.err = TRUE]
  /\ UNCHANGED <<core, ws, nginx, http, apps, running, transientStatus, polled>>

\* the retry of restart.sh returns; its failure goes to the same catch
restartRetried(ok, runs) ==
  /\ op.pc = "retry"
  /\ running' = IF runs THEN running \cup {Basename(op.path)} ELSE running \ {Basename(op.path)}
  /\ op' = [op EXCEPT !.pc = "dwell", !.restart.calls = 2, !.restart.err = ~ok]
  /\ UNCHANGED <<core, ws, nginx, http, apps, transientStatus, polled>>

NextRestart ==
  \/ \E path \in {<<"apps", "a">>, <<"apps", "b">>, <<"apps", "c">>}, script \in BOOLEAN : apiRestart(path, script)
  \/ \E outcome \in {"ok", "conflict", "error"}, progress \in BOOLEAN, runs \in BOOLEAN :
       restartInvoked(outcome, progress, runs)
  \/ \E ok \in BOOLEAN : restartRemoved(ok)
  \/ \E ok \in BOOLEAN, runs \in BOOLEAN : restartRetried(ok, runs)
  \/ \E fails \in BOOLEAN : opChecked(fails)
  \/ apiMapperStatus({})

SpecRestart == Init /\ [][NextRestart]_vars

\* C35: a restart that has answered invoked the restart at most twice, and
\* one whose first invocation failed on the name conflict has tried to remove
\* the conflicting container and, when removed, has retried exactly once,
\* with restart.sh and with the compose CLI alike
ConflictRetriedOnce ==
  op.kind = "restart" /\ op.pc = "idle" /\ op.status # 404 =>
    /\ op.restart.calls <= 2
    /\ op.restart.conflict => op.restart.rm # "none" /\ (op.restart.rm = "ok" => op.restart.calls = 2)
    /\ ~op.restart.conflict => op.restart.calls = 1 /\ op.restart.rm = "none"

(***************************************************************************)
(* The mapper against the manifests                                        *)
(***************************************************************************)

\* the host port of each ports entry of a service, 0 where it publishes none
HostPortsOf(svc) ==
  [k \in 1..Len(svc.ports) |-> IF HasHostPort(svc.ports[k]) THEN svc.ports[k].host ELSE 0]

\* the static address of each network attachment of a service
AddressesOf(svc) == [j \in 1..Len(svc.nets) |-> AttIp(svc.nets[j].att)]

Orders == {o \in [1..Len(DirOrder) -> Projects] : \A i, j \in 1..Len(DirOrder) : o[i] = o[j] => i = j}

\* composeData after the first pass: the directories that were pushed, in
\* the order of discovery
composeDataOf(order, c) == SelectSeq(order, LAMBDA d : d \in c.composeData)

sortComposeData_Keep(data) == data

\* composeData.sort((a, b) => a.dir.localeCompare(b.dir))
sortComposeData(data) == SortedDirs({data[i] : i \in 1..Len(data)})

\* the second pass and the mapper, after a census c of the directories in
\* the order of discovery
AfterCensusOf(fs, mf, order, writeFails, c) ==
  WriteMapper(mf, {order[i] : i \in 1..Len(order)}, writeFails, c,
              SecondPass(sortComposeData(composeDataOf(order, c)),
                         [t |-> [hc |-> c.hc, hs |-> c.hs, ic |-> c.ic],
                          files |-> fs, mapper |-> EmptyMapper, wrote |-> {}],
                         writeFails))

\* scanAndFix when findProjectDirs returns the directories in this order
scanAndFixOf(fs, mf, order, writeFails) ==
  AfterCensusOf(fs, mf, order, writeFails, Census(fs, order, Census0))

\* a tick whose discovery returns the directories in the given order
ReconcileOf(order, writeFails) ==
  LET res == scanAndFixOf(files, mapperFile, order, writeFails)
  IN /\ ScanEnds("tick", res)
     /\ last' = [Did(res, files) EXCEPT !.order = order]
     /\ UNCHANGED rest

NextDiscovery ==
  \/ runner /\ UNCHANGED <<last, rest>>
  \/ \E order \in Orders, wf \in SUBSET Projects : ReconcileOf(order, wf)

SpecDiscovery == InitScan /\ [][NextDiscovery]_vars

\* the manifests and the mapper are those of a run res
SameOutcome(res) == files = res.files /\ mapperFile = res.mapperFile

\* C37: the manifests and the mapper after a run are those the run gives
\* from the same manifests for every order of discovery
DiscoveryOrderFree ==
  last.op = "scan" =>
    \A order \in Orders : SameOutcome(scanAndFixOf(last.pre, mapperFile, order, last.writeFailed))

DiscoveryOrderFree_Witness ==
  /\ last.op = "scan"
  /\ last.order = <<"apps/b", "apps/a">>
  /\ "apps/b" \in last.wrote
  /\ \E pos \in HostPos(last.pre) :
       pos[1] = "apps/b" /\ PortAt(files, pos).host # PortAt(last.pre, pos).host

(***************************************************************************)
(* A periodic reconcile beside apply and delete                            *)
(***************************************************************************)

\* what readFileSync gives for each manifest: a project whose folder is
\* gone cannot be read
Readable(fs, names) == [d \in DOMAIN fs |-> IF d \in ProjectDirs(names) THEN fs[d] ELSE Broken]

\* the tick's await of findProjectDirs returns: order holds the directories
\* found, pre the manifests as they were then
tickDiscovers ==
  /\ inflight.tick > 0
  /\ last.op # "discovered"
  /\ last' = [last0 EXCEPT !.op = "discovered", !.pre = Readable(files, apps),
                           !.order = SortedDirs(ProjectDirs(apps))]
  /\ UNCHANGED <<files, mapperFile, activeTerminalCount, inflight, sessions, applying, ticked, rest>>

censusReads_AtDiscovery(now, atDiscovery) == atDiscovery

\* const content = fs.readFileSync(file, 'utf8') in the first pass: the
\* census reads each manifest in the synchronous block that also writes it
censusReads(now, atDiscovery) == now

\* the manifests after a run that read the workspace as seen and wrote the
\* manifests in res.wrote
Written(res) == [res EXCEPT !.files = [d \in DOMAIN files |-> IF d \in res.wrote THEN res.files[d] ELSE files[d]]]

\* the rest of the tick's run, after discovery: census, second pass, mapper
tickFinishes(writeFails) ==
  /\ last.op = "discovered"
  /\ ScanEnds("tick", Written(scanAndFixOf(censusReads(Readable(files, apps), last.pre),
                                           mapperFile, last.order, writeFails)))
  /\ last' = [Did(scanAndFixOf(censusReads(Readable(files, apps), last.pre),
                               mapperFile, last.order, writeFails), files)
                EXCEPT !.order = last.order]
  /\ UNCHANGED rest

\* the scanAndFix that /api/apply awaits finishes
applyScanned(writeFails) ==
  /\ inflight.user > (IF op.pc = "scan" THEN 1 ELSE 0)
  /\ ScanEnds("user", Written(scanAndFix(Readable(files, apps), mapperFile, ProjectDirs(apps), writeFails)))
  /\ UNCHANGED <<last, rest>>

NextRace ==
  \/ runner /\ UNCHANGED <<last, rest>>
  \/ tickDiscovers
  \/ \E wf \in {{}, Projects} : tickFinishes(wf)
  \/ \E r \in Requests : apiApplyRead("apps/a", r) /\ UNCHANGED <<last, rest>>
  \/ \E a \in applying, wf \in BOOLEAN : apiApplyWrite(a, wf) /\ UNCHANGED <<last, rest>>
  \/ \E wf \in {{}, Projects} : applyScanned(wf)
  \/ apiDelete(<<"apps", "b">>, "b")
  \/ \E fails \in BOOLEAN : opQueried(fails)
  \/ \E wf \in {{}, Projects} : opScanned(wf)

SpecRace == Init /\ [][NextRace]_vars

\* C38: a manifest that a periodic reconcile writes belongs to a project
\* that exists when it is written, and its new content is what the run makes
\* of the workspace as it is when it is written
ReconcileWritesFresh ==
  [][last.op = "discovered" /\ last'.op = "scan" =>
       \A d \in Projects :
         files'[d] # files[d] =>
           /\ d \in ProjectDirs(apps)
           /\ \E wf \in {{}, Projects} :
                files'[d] = scanAndFix(Readable(files, apps), mapperFile, ProjectDirs(apps), wf).files[d]]_vars

ReconcileWritesFresh_Witness ==
  /\ last.op = "scan"
  /\ last.order = <<"apps/a", "apps/b">>
  /\ "b" \notin apps
  /\ "apps/a" \in last.wrote
  /\ last.pre["apps/a"].services[1].ports # <<PortHC(8080, 80)>>

(***************************************************************************)
(* Two overlapping /api/nginx/save requests                                *)
(***************************************************************************)

\* a second save arrives while the first awaits `nginx -t`: its backup copy
\* of the live file, into a file of its own (tmp carries Date.now()), and
\* its write, up to its own await of `nginx -t`
nginxSaveOverlap(content, copyFails) ==
  /\ nginx.pc = "test"
  /\ nginx.other = overlapIdle
  /\ nginx' = [nginx EXCEPT !.live = content,
                            !.other = [pc |-> "test", tmp |-> IF copyFails THEN "absent" ELSE nginx.live,
                                       backedUp |-> ~copyFails, res |-> "none"]]
  /\ UNCHANGED <<core, ws, http, ops>>

\* if (backedUp) copyFileSync(tmp, f), in the second request
overlapRestore(n) ==
  IF n.other.backedUp THEN n.other.tmp ELSE n.live

\* `nginx -t` of the second request returns
nginxOverlapTested(ok) ==
  /\ nginx.other.pc = "test"
  /\ nginx' = IF ok
              THEN [nginx EXCEPT !.other.pc = "reload"]
              ELSE [nginx EXCEPT !.live = overlapRestore(nginx),
                                 !.other.pc = "idle", !.other.tmp = "absent", !.other.res = "test"]
  /\ UNCHANGED <<core, ws, http, ops>>

\* `nginx -s reload` of the second request returns
nginxOverlapReloaded(ok) ==
  /\ nginx.other.pc = "reload"
  /\ nginx' = IF ok
              THEN [nginx EXCEPT !.other.pc = "idle", !.other.tmp = "absent", !.other.res = "applied"]
              ELSE [nginx EXCEPT !.other.pc = "systemctl"]
  /\ UNCHANGED <<core, ws, http, ops>>

\* `systemctl reload nginx` of the second request returns
nginxOverlapSystemctl(ok) ==
  /\ nginx.other.pc = "systemctl"
  /\ nginx' = [nginx EXCEPT !.live = IF ok THEN @ ELSE overlapRestore(nginx),
                            !.other.pc = "idle", !.other.tmp = "absent",
                            !.other.res = IF ok THEN "systemctl" ELSE "reload"]
  /\ UNCHANGED <<core, ws, http, ops>>

NextNginxOverlap ==
  \/ NextNginx
  \/ \E c \in {"conf1", "conf2"}, cf \in BOOLEAN : nginxSaveOverlap(c, cf)
  \/ \E ok \in BOOLEAN : nginxOverlapTested(ok)
  \/ \E ok \in BOOLEAN : nginxOverlapReloaded(ok)
  \/ \E ok \in BOOLEAN : nginxOverlapSystemctl(ok)

SpecNginxOverlap == Init /\ [][NextNginxOverlap]_vars

\* C39: when two overlapping saves that both made their backup have both
\* answered with a failed test, the live config is what it was before the
\* first of them began
OverlappingSavesRollBack ==
  /\ nginx.pc = "idle" /\ nginx.res = "test" /\ nginx.backedUp
  /\ nginx.other.pc = "idle" /\ nginx.other.res = "test" /\ nginx.other.backedUp
  => nginx.live = nginx.pre

(***************************************************************************)
(* POST /api/add: copy the template, give the copy ports and addresses     *)
(***************************************************************************)

\* path.join(appsDir, name) for the names an add may be given
NewDir == [a |-> "apps/a", b |-> "apps/b", u |-> "apps/u"]

TemplateDir == "apps/template"

\* templates: a static address in the structured form, ports only, and a
\* static address as a bare string
Templates ==
  { Manifest(TRUE, <<Svc("web", <<PortHC(8080, 80)>>, <<Net(DefaultNet, AttObj(CoreIp(5)))>>)>>, Top({DefaultNet}, {})),
    Manifest(TRUE, <<Svc("web", <<PortHC(8080, 80), PortC(80)>>, <<Net(DefaultNet, AttBare)>>)>>, Top({DefaultNet}, {})),
    Manifest(TRUE, <<Svc("web", <<PortBHC("127.0.0.1", 8080, 80)>>, <<Net(DefaultNet, AttStr(CoreIp(5)))>>)>>, Top({DefaultNet}, {})) }

\* the project that is there beside the template
Neighbours ==
  { Manifest(TRUE, <<Svc("db", <<PortHC(8081, 81)>>, <<Net(DefaultNet, AttObj(CoreIp(6)))>>)>>, Top({DefaultNet}, {})),
    Manifest(TRUE, <<Svc("db", <<PortHC(9000, 81)>>, <<Net(DefaultNet, AttBare)>>)>>, Top({DefaultNet}, {})) }

\* the host ports a manifest publishes, as the handler reads them
addHosts(m) ==
  IF ~m.ok THEN {}
  ELSE UNION {{m.services[i].ports[k].host :
                 k \in {j \in 1..Len(m.services[i].ports) :
                          /\ m.services[i].ports[j].form \in {"HC", "BHC"}
                          /\ m.services[i].ports[j].host \notin {0, NaN}}} :
              i \in 1..Len(m.services)}

\* the addresses of a manifest the handler collects: bare strings and
\* ipv4_address
addIps(m) ==
  IF ~m.ok THEN {}
  ELSE UNION {{m.services[i].nets[k].att.v4 :
                 k \in {j \in 1..Len(m.services[i].nets) : m.services[i].nets[j].att.v4 # NoIp}} :
              i \in 1..Len(m.services)}

\* a workspace the reconciler has settled: a run changes no manifest
Settled(fs) == scanAndFix(fs, NoMapper, DOMAIN fs, {}).files = fs

InitAdd ==
  /\ files \in [{"apps/a", TemplateDir} -> Templates \cup Neighbours]
  /\ files[TemplateDir] \in Templates
  /\ files["apps/a"] \in Neighbours
  /\ Settled(files)
  /\ InitServer

\* let probe = hostPort; while (usedHost.has(probe)) probe++
addProbe(hostPort, usedHost) ==
  SetMin({n \in hostPort..(hostPort + Cardinality(usedHost)) : n \notin usedHost})

\* the ports of one service of the copy
RECURSIVE addPorts(_, _, _)
addPorts(ports, acc, usedHost) ==
  IF ports = <<>> THEN [ports |-> acc, usedHost |-> usedHost]
  ELSE IF Head(ports).form \in {"HC", "BHC"} /\ Head(ports).host \notin {0, NaN}
  THEN addPorts(Tail(ports),
                Append(acc, [Head(ports) EXCEPT !.host = addProbe(Head(ports).host, usedHost)]),
                usedHost \cup {addProbe(Head(ports).host, usedHost)})
  ELSE addPorts(Tail(ports), Append(acc, Head(ports)), usedHost)

\* an attachment whose address the handler does not replace: only a bare
\* string that spells an address is replaced
addKeepsAddress(att) == ~(att.form = "str" /\ att.v4 # NoIp)

\* 172.28.0.(maxUsed + 1), maxUsed over the used addresses of that subnet
addNextIp(usedIPs) ==
  LET nums == {ip.host : ip \in {i \in usedIPs : i.base = NETWORK_base}}
  IN Ip(NETWORK_base, (IF nums = {} THEN 0 ELSE CHOOSE n \in nums : \A k \in nums : k <= n) + 1)

\* the networks of one service of the copy
RECURSIVE addNets(_, _, _)
addNets(nets, acc, usedIPs) ==
  IF nets = <<>> THEN [nets |-> acc, usedIPs |-> usedIPs]
  ELSE IF addKeepsAddress(Head(nets).att) THEN addNets(Tail(nets), Append(acc, Head(nets)), usedIPs)
  ELSE addNets(Tail(nets), Append(acc, [Head(nets) EXCEPT !.att = AttObj(addNextIp(usedIPs))]),
               usedIPs \cup {addNextIp(usedIPs)})

\* one service, from its new ports (rp) and its new networks (rn)
addService(svc, rp, rn, acc) ==
  [services |-> Append(acc, [svc EXCEPT !.ports = rp.ports, !.nets = rn.nets]),
   usedHost |-> rp.usedHost, usedIPs |-> rn.usedIPs]

\* for (const [svcName, svc] of Object.entries(obj.services))
RECURSIVE addServices(_, _, _, _)
addServices(services, acc, usedHost, usedIPs) ==
  IF services = <<>> THEN acc
  ELSE addServices(Tail(services),
                   addService(Head(services), addPorts(Head(services).ports, <<>>, usedHost),
                              addNets(Head(services).nets, <<>>, usedIPs), acc).services,
                   addPorts(Head(services).ports, <<>>, usedHost).usedHost,
                   addNets(Head(services).nets, <<>>, usedIPs).usedIPs)

\* POST /api/add up to its await of project discovery: 404 without the
\* template, 400 for a name that is taken; else the template is copied and
\* the copy's manifest parsed
apiAdd(name) ==
  /\ op.pc = "idle"
  /\ IF TemplateDir \notin DOMAIN files
     THEN /\ op' = [opIdle EXCEPT !.kind = "add", !.path = <<"apps", name>>, !.status = 404]
          /\ UNCHANGED files
     ELSE IF NewDir[name] \in DOMAIN files
     THEN /\ op' = [opIdle EXCEPT !.kind = "add", !.path = <<"apps", name>>, !.status = 400]
          /\ UNCHANGED files
     ELSE /\ files' = files @@ (NewDir[name] :> files[TemplateDir])
          /\ op' = [opIdle EXCEPT !.kind = "add", !.path = <<"apps", name>>, !.pc = "discover",
                                  !.add.before = files, !.add.dir = NewDir[name],
                                  !.add.obj = Tree(files[TemplateDir])]
  /\ UNCHANGED <<mapperFile, activeTerminalCount, inflight, sessions, applying, ticked, last,
                 ws, nginx, http, apps, running, transientStatus, polled>>

\* discovery returns and every manifest is read; then the await of
\* docker network inspect
addDiscovered ==
  /\ op.pc = "discover"
  /\ op' = [op EXCEPT !.pc = "inspect",
                      !.add.usedHost = UNION {addHosts(files[d]) : d \in DOMAIN files},
                      !.add.usedIPs = UNION {addIps(files[d]) : d \in DOMAIN files}]
  /\ UNCHANGED <<core, ws, nginx, http, apps, running, transientStatus, polled>>

\* docker network inspect returns with the addresses of the containers
\* (none when it fails); the services of the copy are given their ports and
\* addresses, the manifest is written and scanAndFix starts. A write that
\* throws answers 500
addInspected(containers, writeFails) ==
  /\ op.pc = "inspect"
  /\ IF writeFails
     THEN /\ op' = [op EXCEPT !.pc = "idle", !.status = 500]
          /\ UNCHANGED <<files, inflight>>
     ELSE /\ InFlight < MaxInFlight
          /\ files' = [files EXCEPT ![op.add.dir] =
                         writeCompose(files[op.add.dir],
                                      [op.add.obj EXCEPT !.services =
                                         addServices(op.add.obj.services, <<>>, op.add.usedHost,
                                                     op.add.usedIPs \cup containers)])]
          /\ inflight' = [inflight EXCEPT !.user = @ + 1]
          /\ op' = [op EXCEPT !.pc = "scan", !.wrote = TRUE]
  /\ UNCHANGED <<mapperFile, activeTerminalCount, sessions, applying, ticked, last,
                 ws, nginx, http, apps, running, transientStatus, polled>>

\* the scanAndFix that the add awaits finishes; then the response
addScanned(writeFails) ==
  /\ op.pc = "scan"
  /\ op.kind = "add"
  /\ ScanEnds("user", scanAndFix(files, mapperFile, DOMAIN files, writeFails))
  /\ op' = [op EXCEPT !.pc = "idle", !.status = 200, !.scanned = TRUE]
  /\ UNCHANGED <<last, ws, nginx, http, apps, running, transientStatus, polled>>

NextAdd ==
  \/ \E name \in DOMAIN NewDir : apiAdd(name)
  \/ addDiscovered
  \/ \E containers \in {{}, {CoreIp(7)}}, wf \in BOOLEAN : addInspected(containers, wf)
  \/ \E wf \in {{}, {TemplateDir}} : addScanned(wf)

SpecAdd == InitAdd /\ [][NextAdd]_vars

\* the host ports and the addresses a manifest holds
HostsOf(m) ==
  UNION {{m.services[i].ports[k].host : k \in {j \in 1..Len(m.services[i].ports) : HasHostPort(m.services[i].ports[j])}} :
         i \in 1..Len(m.services)}

IpsOf(m) ==
  UNION {{AttIp(m.services[i].nets[k].att) : k \in 1..Len(m.services[i].nets)} : i \in 1..Len(m.services)} \ {NoIp}

\* C40: after an add that answered 200, in which no write failed, the new
\* project shares no host port and no address with another project, and the
\* manifest of every project that was there before is as it was
AddLeavesOthers ==
  op.kind = "add" /\ op.pc = "idle" /\ op.status = 200 /\ mapperFile.exists
    /\ DOMAIN mapperFile.content = DOMAIN files =>
    /\ \A d \in DOMAIN op.add.before :
         /\ files[d] = op.add.before[d]
         /\ HostsOf(files[d]) \cap HostsOf(files[op.add.dir]) = {}
         /\ IpsOf(files[d]) \cap IpsOf(files[op.add.dir]) = {}

====
